---- MODULE Spec2Model ----
(***************************************************************************)
(* A model of SCET's query-resolution core: the record merger and refresh  *)
(* path (data_collection/collector.py), the source orchestrator            *)
(* (data_collection/scrapers.py), the spell corrector                      *)
(* (ai_search/spell_corrector.py) and the relevance scorer                 *)
(* (ai_search/search_engine.py, ai_search/semantic_search.py).             *)
(*                                                                         *)
(* Text is a sequence of one-character strings, so that lower-casing,      *)
(* stripping and normalisation are computed, not assumed.  Real numbers    *)
(* are exact fractions <<numerator, denominator>>; confidences are kept    *)
(* in hundredths.                                                          *)
(***************************************************************************)
EXTENDS Integers, Sequences, FiniteSets, TLC

VARIABLES
    \* --- the store and the merger (collector.py) ---
    store,        \* rows of work_metadata, in id order
    clock,        \* datetime.utcnow(), as a tick that advances per operation
    in_pc,        \* position of _process_and_store: "idle" or "loop"
    in_count,     \* candidates of the current batch processed so far
    last,         \* what the last merger or refresh step did
    ingested,     \* history: every candidate handed to _process_and_store
    n_cands,      \* history: how many candidates were processed in all
    \* --- one WebScraper.search_all call (scrapers.py) ---
    sc_pc,        \* "idle", "gather" (awaiting asyncio.gather) or "returned"
    sc_type,      \* the content_type argument
    sc_tasks,     \* the adapter tasks handed to gather, by adapter name
    sc_out,       \* how the call ended: raised or not, and the list returned
    \* --- the spell corrector (spell_corrector.py) ---
    learned_corrections,  \* _learned_corrections: query -> title
    word_freq,            \* _word_freq: word -> count
    known_titles,         \* _known_titles
    co_calls,             \* history: how many calls taught the corrector
    co_last,              \* the last call on the corrector and what it returned
    \* --- the relevance scorer (search_engine.py, semantic_search.py) ---
    embeddings_cache,     \* _embeddings_cache: normalized text -> embedding
    sr_last,              \* the last _calculate_relevance_score call and its score
    \* --- _rank_and_deduplicate (search_engine.py) ---
    rk_last,              \* the last _rank_and_deduplicate call and what it returned
    \* --- DataUpdateScheduler (data_collection/scheduler.py) ---
    sd_running,           \* self._running
    sd_task,              \* self._task: the _run_loop task start() created last, NoTask for None
    sd_loops,             \* every _run_loop task: where it is suspended and the pass it is in
    sd_stops,             \* every stop() call: not made, waiting for a task, or returned
    sd_stale,             \* the records whose last_verified_at is older than the threshold
    sd_entries_updated,   \* self._entries_updated
    sd_passes,            \* how many times _check_and_update_stale_entries was entered
    sd_warned,            \* whether start() has logged 'Scheduler already running'
    \* --- a search request and its merge: routes.py, search_engine.py, collector.py ---
    ig_rows,              \* work_metadata as committed
    ig_session,           \* the Session of the call that is inside _process_and_store
    ig_calls,             \* every search request: where it is and what it has seen
    ig_count,             \* how many search requests have begun
    ig_merged,            \* how many candidates the merges have taken up
    \* --- the entry points of AISearchEngine.search (api/routes.py, schemas.py) ---
    rq_last,              \* the last request to an entry point and the work it led to
    \* --- POST /search/feedback (api/routes.py) ---
    fb_last,              \* the last feedback event and the tables before it
    fb_logs,              \* search_logs, in id order
    \* --- utils.normalize_title (utils.py) ---
    nt_last,              \* the last normalize_title call and what it returned
    \* --- the shared DataCollector and its status (data_collection/collector.py) ---
    cl_is_running,        \* self._is_running
    cl_last_run,          \* whether self._last_run has been set
    cl_total_collected,   \* self._total_collected
    cl_calls,             \* every collect_for_query call: not made, awaiting search_all, or ended
    cl_status,            \* what the last get_status call reported, and the calls in flight then
    \* --- the passes of one _run_loop task over a store larger than a batch (scheduler.py) ---
    rf_pc,                \* where the task is suspended: interval_sleep, verify or rate_sleep
    rf_stale,             \* the records whose last_verified_at is null or older than the threshold
    rf_entries,           \* stale_entries of the pass in progress
    rf_entry,             \* the position of the pass in stale_entries
    rf_verified           \* history: the records some pass has handed to verify_and_update

storeVars == <<store, clock, in_pc, in_count, last, ingested, n_cands>>

scrapeVars == <<sc_pc, sc_type, sc_tasks, sc_out>>

correctorVars == <<learned_corrections, word_freq, known_titles, co_calls, co_last>>

scoreVars == <<embeddings_cache, sr_last>>

rankVars == <<rk_last>>

schedVars == <<sd_running, sd_task, sd_loops, sd_stops, sd_stale, sd_entries_updated, sd_passes, sd_warned>>

mergeVars == <<ig_rows, ig_session, ig_calls, ig_count, ig_merged>>

requestVars == <<rq_last>>

feedbackVars == <<fb_last, fb_logs>>

normalizeVars == <<nt_last>>

collectorVars == <<cl_is_running, cl_last_run, cl_total_collected, cl_calls, cl_status>>

refreshVars == <<rf_pc, rf_stale, rf_entries, rf_entry, rf_verified>>

vars == <<storeVars, scrapeVars, correctorVars, scoreVars, rankVars, schedVars, mergeVars, requestVars, feedbackVars, normalizeVars, collectorVars, refreshVars>>

\* what the steps of one component leave alone
notStore == <<scrapeVars, correctorVars, scoreVars, rankVars, schedVars, mergeVars, requestVars, feedbackVars, normalizeVars, collectorVars, refreshVars>>

notScrape == <<storeVars, correctorVars, scoreVars, rankVars, schedVars, mergeVars, requestVars, feedbackVars, normalizeVars, collectorVars, refreshVars>>

notCorrector == <<storeVars, scrapeVars, scoreVars, rankVars, schedVars, mergeVars, requestVars, feedbackVars, normalizeVars, collectorVars, refreshVars>>

notScore == <<storeVars, scrapeVars, correctorVars, rankVars, schedVars, mergeVars, requestVars, feedbackVars, normalizeVars, collectorVars, refreshVars>>

notRank == <<storeVars, scrapeVars, correctorVars, scoreVars, schedVars, mergeVars, requestVars, feedbackVars, normalizeVars, collectorVars, refreshVars>>

notSched == <<storeVars, scrapeVars, correctorVars, scoreVars, rankVars, mergeVars, requestVars, feedbackVars, normalizeVars, collectorVars, refreshVars>>

notMerge == <<storeVars, scrapeVars, correctorVars, scoreVars, rankVars, schedVars, requestVars, feedbackVars, normalizeVars, collectorVars, refreshVars>>

notRequest == <<storeVars, scrapeVars, correctorVars, scoreVars, rankVars, schedVars, mergeVars, feedbackVars, normalizeVars, collectorVars, refreshVars>>

notFeedback == <<storeVars, scrapeVars, correctorVars, scoreVars, rankVars, schedVars, mergeVars, requestVars, normalizeVars, collectorVars, refreshVars>>

notCorrectorFeedback == <<storeVars, scrapeVars, scoreVars, rankVars, schedVars, mergeVars, requestVars, normalizeVars, collectorVars, refreshVars>>

notNormalize == <<storeVars, scrapeVars, correctorVars, scoreVars, rankVars, schedVars, mergeVars, requestVars, feedbackVars, collectorVars, refreshVars>>

notCollector == <<storeVars, scrapeVars, correctorVars, scoreVars, rankVars, schedVars, mergeVars, requestVars, feedbackVars, normalizeVars, refreshVars>>

notRefresh == <<storeVars, scrapeVars, correctorVars, scoreVars, rankVars, schedVars, mergeVars, requestVars, feedbackVars, normalizeVars, collectorVars>>

(***************************************************************************)
(* Python values                                                           *)
(***************************************************************************)
\* None of an Optional[str]
NoneStr == "<None>"
\* None of an Optional[int]
NoneInt == -1

\* bool(v) of Python for an optional string and for an optional integer
TruthyStr(v) == v # NoneStr /\ v # ""

TruthyInt(v) == v # NoneInt /\ v # 0

Min2(a, b) == IF a <= b THEN a ELSE b

Max2(a, b) == IF a >= b THEN a ELSE b

MaxOf(S) == CHOOSE m \in S : \A x \in S : x <= m

(***************************************************************************)
(* Text                                                                    *)
(***************************************************************************)
UpperLetters ==
    <<"A","B","C","D","E","F","G","H","I","J","K","L","M",
      "N","O","P","Q","R","S","T","U","V","W","X","Y","Z">>

LowerLetters ==
    <<"a","b","c","d","e","f","g","h","i","j","k","l","m",
      "n","o","p","q","r","s","t","u","v","w","x","y","z">>

Digits == {"0","1","2","3","4","5","6","7","8","9"}

\* str.isspace
IsSpace(c) == c \in {" ", "\t"}

\* a precomposed accented letter and the combining mark NFKD splits it into
EAcute == "e_acute"
CombiningAcute == "combining_acute"

\* str.lower, one character
LowerChar(c) ==
    IF \E i \in 1..26 : UpperLetters[i] = c
    THEN LowerLetters[CHOOSE i \in 1..26 : UpperLetters[i] = c]
    ELSE c

\* str.lower
Lower(s) == [i \in 1..Len(s) |-> LowerChar(s[i])]

RECURSIVE LStrip(_)
LStrip(s) == IF s # <<>> /\ IsSpace(s[1]) THEN LStrip(Tail(s)) ELSE s

RECURSIVE RStrip(_)
RStrip(s) ==
    IF s # <<>> /\ IsSpace(s[Len(s)]) THEN RStrip(SubSeq(s, 1, Len(s) - 1)) ELSE s

\* str.strip
Strip(s) == LStrip(RStrip(s))

\* str.split(): the maximal runs of non-space characters
RECURSIVE SplitFrom(_, _, _)
SplitFrom(s, word, acc) ==
    IF s = <<>>
    THEN IF word = <<>> THEN acc ELSE Append(acc, word)
    ELSE IF IsSpace(s[1])
         THEN SplitFrom(Tail(s), <<>>, IF word = <<>> THEN acc ELSE Append(acc, word))
         ELSE SplitFrom(Tail(s), Append(word, s[1]), acc)

Split(s) == SplitFrom(s, <<>>, <<>>)

\* ' '.join(words)
RECURSIVE Join(_)
Join(words) ==
    IF words = <<>> THEN <<>>
    ELSE IF Len(words) = 1 THEN words[1]
    ELSE words[1] \o <<" ">> \o Join(Tail(words))

\* needle in haystack (substring test of Python's `in` on str)
Contains(haystack, needle) ==
    \E i \in 0..(Len(haystack) - Len(needle)) :
        SubSeq(haystack, i + 1, i + Len(needle)) = needle

\* unicodedata.normalize('NFKD', .), one character
NFKDChar(c) == IF c = EAcute THEN <<"e", CombiningAcute>> ELSE <<c>>

RECURSIVE NFKD(_)
NFKD(s) == IF s = <<>> THEN <<>> ELSE NFKDChar(s[1]) \o NFKD(Tail(s))

\* the characters re.sub(r'[^\w\s\-\']', '', .) keeps
KeptChar(c) ==
    \/ \E i \in 1..26 : LowerLetters[i] = c \/ UpperLetters[i] = c
    \/ c \in Digits
    \/ c = "_"
    \/ IsSpace(c)
    \/ c = "-"
    \/ c = "'"

\* re.sub with count=1: only the first character outside the class is removed
RemoveOneSpecial(s) ==
    IF \A i \in 1..Len(s) : KeptChar(s[i]) THEN s
    ELSE LET first == CHOOSE i \in 1..Len(s) :
                          /\ ~KeptChar(s[i])
                          /\ \A j \in 1..(i - 1) : KeptChar(s[j])
         IN  SubSeq(s, 1, first - 1) \o SubSeq(s, first + 1, Len(s))

RemoveSpecial(s) == SelectSeq(s, KeptChar)

normalize_title(title) ==
    IF title = <<>> THEN <<>>
    ELSE Strip(Join(Split(RemoveSpecial(Lower(NFKD(title))))))

(***************************************************************************)
(* Exact fractions                                                         *)
(***************************************************************************)
RECURSIVE Gcd(_, _)
Gcd(a, b) == IF b = 0 THEN a ELSE Gcd(b, a % b)

Abs(x) == IF x < 0 THEN 0 - x ELSE x

\* the fraction n/d in lowest terms, d > 0
Frac(n, d) ==
    LET g == Gcd(Abs(n), Abs(d))
        s == IF d < 0 THEN 0 - 1 ELSE 1
    IN  IF n = 0 THEN <<0, 1>> ELSE <<s * (n \div g), s * (d \div g)>>

FAdd(a, b) == Frac(a[1] * b[2] + b[1] * a[2], a[2] * b[2])

FSub(a, b) == Frac(a[1] * b[2] - b[1] * a[2], a[2] * b[2])

FMul(a, b) == Frac(a[1] * b[1], a[2] * b[2])

FLt(a, b) == a[1] * b[2] < b[1] * a[2]

FLe(a, b) == a[1] * b[2] <= b[1] * a[2]

FMax(a, b) == IF FLt(a, b) THEN b ELSE a

FMin(a, b) == IF FLt(b, a) THEN b ELSE a

FZero == <<0, 1>>

FOne == <<1, 1>>

(***************************************************************************)
(* utils.levenshtein_distance and utils.similarity_ratio                   *)
(***************************************************************************)
\* current_row of levenshtein_distance for character c1 (the i-th of s1),
\* after its first j cells beyond the leading i
RECURSIVE LevRow(_, _, _, _, _)
LevRow(previous_row, c1, x2, i, j) ==
    IF j = 0 THEN <<i>>
    ELSE LET current_row == LevRow(previous_row, c1, x2, i, j - 1)
             insertions == previous_row[j + 1] + 1
             deletions == current_row[j] + 1
             substitutions == previous_row[j] + (IF c1 # x2[j] THEN 1 ELSE 0)
         IN  Append(current_row, Min2(insertions, Min2(deletions, substitutions)))

\* previous_row after the first i characters of s1
RECURSIVE LevRows(_, _, _)
LevRows(x1, x2, i) ==
    IF i = 0 THEN [k \in 1..(Len(x2) + 1) |-> k - 1]
    ELSE LevRow(LevRows(x1, x2, i - 1), x1[i], x2, i, Len(x2))

levenshtein_distance(x1, x2) ==
    IF Len(x1) < Len(x2) THEN LevRows(x2, x1, Len(x2))[Len(x1) + 1]
    ELSE IF Len(x2) = 0 THEN Len(x1)
    ELSE LevRows(x1, x2, Len(x1))[Len(x2) + 1]

similarity_ratio(s1, s2) ==
    IF s1 = <<>> \/ s2 = <<>> THEN FZero
    ELSE LET n1 == normalize_title(s1)
             n2 == normalize_title(s2)
         IN  IF n1 = n2 THEN FOne
             ELSE LET max_len == Max2(Len(n1), Len(n2))
                  IN  Frac(max_len - levenshtein_distance(n1, n2), max_len)

(***************************************************************************)
(* The type filter and the ordering at the end of WebScraper.search_all    *)
(***************************************************************************)
\* type_groups of search_all
type_groups ==
    [ct \in {"software", "code", "library", "book", "music", "film", "patent",
             "trademark", "academic_paper", "project", "innovation", "drone",
             "technology", "company", "startup", "research_project"} |->
        CASE ct \in {"software", "code", "library"} -> {"software", "code", "library"}
          [] ct = "book" -> {"book"}
          [] ct = "music" -> {"music"}
          [] ct = "film" -> {"film", "movie"}
          [] ct = "patent" -> {"patent"}
          [] ct = "trademark" -> {"trademark"}
          [] ct = "academic_paper" -> {"academic_paper", "article", "research_paper"}
          [] ct = "project" ->
                {"project", "innovation_project", "research_project", "product"}
          [] ct \in {"innovation", "technology"} ->
                {"project", "innovation_project", "product", "technology"}
          [] ct = "drone" ->
                {"project", "innovation_project", "product", "technology", "drone"}
          [] ct \in {"company", "startup"} -> {"company", "startup_company"}
          [] ct = "research_project" -> {"research_project", "academic_paper", "project"} ]

\* type_groups.get(content_type, [content_type])
allowed_types(content_type) ==
    IF content_type \in DOMAIN type_groups THEN type_groups[content_type]
    ELSE {content_type}

\* the filter with its test dropped
KeepEverything(r_type, content_type) == TRUE

\* the test of the strict filter: a candidate of type r_type passes a request
\* for content_type
PassesTypeFilter(r_type, content_type) ==
    r_type \in allowed_types(content_type) \/ r_type = content_type

\* `if content_type:` all_results = [r for r in all_results if ...]
StrictFilter(all_results, content_type) ==
    IF TruthyStr(content_type)
    THEN LET Keep(r) == PassesTypeFilter(r.content_type, content_type)
         IN  SelectSeq(all_results, Keep)
    ELSE all_results

\* list.sort(key=confidence, reverse=True): stable, so equal confidences keep
\* their order
RECURSIVE InsertByConfidence(_, _)
InsertByConfidence(sorted, r) ==
    IF sorted = <<>> THEN <<r>>
    ELSE IF r.confidence > sorted[Len(sorted)].confidence
         THEN Append(InsertByConfidence(SubSeq(sorted, 1, Len(sorted) - 1), r),
                     sorted[Len(sorted)])
         ELSE Append(sorted, r)

RECURSIVE SortByConfidence(_)
SortByConfidence(rs) ==
    IF rs = <<>> THEN <<>>
    ELSE InsertByConfidence(SortByConfidence(SubSeq(rs, 1, Len(rs) - 1)), rs[Len(rs)])

\* what search_all returns once the adapters' results are gathered
FilterAndSort(all_results, content_type) ==
    SortByConfidence(StrictFilter(all_results, content_type))

\* every sequence over S of length at most n
SeqsUpTo(S, n) == UNION { [1..k -> S] : k \in 0..n }

(***************************************************************************)
(* The record merger: DataCollector (collector.py) over work_metadata      *)
(***************************************************************************)
\* bounds of the store model
MaxOps == 2
MaxCandidates == 3
MaxScraped == 1

tHamlet == <<"H","a","m","l","e","t">>
tHamletLoud == <<" ","H","A","M","L","E","T","!">>
tHamlets == <<"H","a","m","l","e","t","s">>

\* ScrapedWork values the adapters hand over (title, creator, years, type,
\* confidence in hundredths).  They cover: one key under two raw titles, a
\* near-identical title under another key, candidates without a content
\* type, empty-but-not-None fields, and competing creators.
ScrapedWorks ==
    { [title |-> tHamlet, creator |-> NoneStr, creator_death_year |-> NoneInt,
       publication_year |-> NoneInt, content_type |-> "book", confidence |-> 70],
      [title |-> tHamletLoud, creator |-> "William Shakespeare", creator_death_year |-> 1616,
       publication_year |-> 1603, content_type |-> "book", confidence |-> 90],
      [title |-> tHamlet, creator |-> "W. Shakespeare", creator_death_year |-> NoneInt,
       publication_year |-> 0, content_type |-> "book", confidence |-> 95],
      [title |-> tHamlets, creator |-> "", creator_death_year |-> 1616,
       publication_year |-> 1604, content_type |-> "book", confidence |-> 80],
      [title |-> tHamlet, creator |-> NoneStr, creator_death_year |-> NoneInt,
       publication_year |-> NoneInt, content_type |-> NoneStr, confidence |-> 70],
      [title |-> tHamlet, creator |-> "William Shakespeare", creator_death_year |-> NoneInt,
       publication_year |-> 1603, content_type |-> NoneStr, confidence |-> 90] }

Titles == { w.title : w \in ScrapedWorks }

\* utils.normalize_title and DataCollector._title_similarity, evaluated once
\* for the titles that occur (the operators are pure)
NormalizedTitle == [t \in Titles |-> normalize_title(t)]
TitleSimilarity == [t1 \in Titles, t2 \in Titles |-> similarity_ratio(t1, t2)]

_title_similarity(title1, title2) == TitleSimilarity[title1, title2]

\* DataCollector._update_work with every guard dropped
UpdateWorkOverwriting(existing, new_data, now) ==
    [existing EXCEPT
        !.creator = new_data.creator,
        !.creator_death_year = new_data.creator_death_year,
        !.publication_year = new_data.publication_year,
        !.data_confidence = new_data.confidence,
        !.last_verified_at = now]

\* DataCollector._update_work
_update_work(existing, new_data, now) ==
    [existing EXCEPT
        !.creator =
            IF TruthyStr(new_data.creator) /\ ~TruthyStr(existing.creator)
            THEN new_data.creator ELSE @,
        !.creator_death_year =
            IF TruthyInt(new_data.creator_death_year) /\ ~TruthyInt(existing.creator_death_year)
            THEN new_data.creator_death_year ELSE @,
        !.publication_year =
            IF TruthyInt(new_data.publication_year) /\ ~TruthyInt(existing.publication_year)
            THEN new_data.publication_year ELSE @,
        !.data_confidence =
            IF new_data.confidence > existing.data_confidence
            THEN new_data.confidence ELSE @,
        !.last_verified_at = now]

\* WorkMetadata(...) as _process_and_store builds it; the id is the autoincrement
NewWorkMetadata(work, id, now) ==
    [id |-> id,
     title |-> work.title,
     title_normalized |-> NormalizedTitle[work.title],
     creator |-> work.creator,
     creator_death_year |-> work.creator_death_year,
     publication_year |-> work.publication_year,
     content_type |-> IF TruthyStr(work.content_type) THEN work.content_type ELSE "unknown",
     data_confidence |-> work.confidence,
     last_verified_at |-> NoneInt]

\* the rows the duplicate lookup of _process_and_store selects
ExistingRows(work) ==
    { i \in DOMAIN store :
        /\ store[i].title_normalized = NormalizedTitle[work.title]
        /\ store[i].content_type = work.content_type }

NoStep == [kind |-> "none"]

InitStoreVars ==
    /\ store = <<>>
    /\ clock = 0
    /\ in_pc = "idle"
    /\ in_count = 0
    /\ last = NoStep
    /\ ingested = {}
    /\ n_cands = 0

\* _process_and_store is entered (with a non-empty batch: collect_for_query
\* returns early on an empty one)
ProcessAndStoreBegin ==
    /\ in_pc = "idle"
    /\ clock < MaxOps
    /\ n_cands < MaxCandidates
    /\ in_pc' = "loop"
    /\ in_count' = 0
    /\ last' = NoStep
    /\ UNCHANGED <<store, clock, ingested, n_cands>>
    /\ UNCHANGED notStore

\* one iteration of the loop of _process_and_store, on candidate `work`
ProcessCandidate(work) ==
    /\ in_pc = "loop"
    /\ n_cands < MaxCandidates
    /\ n_cands' = n_cands + 1
    /\ in_count' = in_count + 1
    /\ ingested' = ingested \cup {work}
    /\ IF ExistingRows(work) # {}
       THEN \E i \in ExistingRows(work) :
                /\ store' = IF work.confidence > store[i].data_confidence
                            THEN [store EXCEPT ![i] = _update_work(store[i], work, clock)]
                            ELSE store
                /\ last' = [kind |-> "found", cand |-> work, before |-> store[i],
                            id |-> store[i].id]
       ELSE /\ store' = Append(store, NewWorkMetadata(work, Len(store) + 1, clock))
            /\ last' = [kind |-> "inserted", cand |-> work, id |-> Len(store) + 1]
    /\ UNCHANGED <<clock, in_pc>>
    /\ UNCHANGED notStore

\* the batch is exhausted: db.commit() and return
ProcessAndStoreCommit ==
    /\ in_pc = "loop"
    /\ in_count > 0
    /\ in_pc' = "idle"
    /\ clock' = clock + 1
    /\ last' = NoStep
    /\ UNCHANGED <<store, in_count, ingested, n_cands>>
    /\ UNCHANGED notStore

\* the best-match loop of verify_and_update after its first k items:
\* <<position of best_match (0: None), best_score>>
RECURSIVE BestMatch(_, _, _)
BestMatch(title, scraped, k) ==
    IF k = 0 THEN <<0, FZero>>
    ELSE LET before == BestMatch(title, scraped, k - 1)
             title_sim == _title_similarity(title, scraped[k].title)
         IN  IF FLt(before[2], title_sim) THEN <<k, title_sim>> ELSE before

\* DataCollector.verify_and_update(work_id, db); all_results is what the
\* adapters return to search_all(work.title, work.content_type)
VerifyAndUpdate(work_id, all_results) ==
    /\ in_pc = "idle"
    /\ clock < MaxOps
    /\ clock' = clock + 1
    /\ IF \E k \in DOMAIN store : store[k].id = work_id
       THEN LET i == CHOOSE k \in DOMAIN store : store[k].id = work_id
                found == FilterAndSort(all_results, store[i].content_type)
                best == BestMatch(store[i].title, found, Len(found))
            IN  IF found # <<>> /\ best[1] # 0 /\ FLt(<<4, 5>>, best[2])
                THEN /\ store' = [store EXCEPT ![i] =
                                    _update_work(store[i], found[best[1]], clock)]
                     /\ last' = [kind |-> "verified", cand |-> found[best[1]],
                                 before |-> store[i], id |-> work_id]
                ELSE /\ UNCHANGED store
                     /\ last' = [kind |-> "unverified", id |-> work_id]
       ELSE /\ UNCHANGED store
            /\ last' = [kind |-> "missing", id |-> work_id]
    /\ UNCHANGED <<in_pc, in_count, ingested, n_cands>>
    /\ UNCHANGED notStore

NextIngest ==
    \/ ProcessAndStoreBegin
    \/ \E work \in ScrapedWorks : ProcessCandidate(work)
    \/ ProcessAndStoreCommit

NextStore ==
    \/ NextIngest
    \/ \E work_id \in 1..(Len(store) + 1) :
           \E all_results \in SeqsUpTo(ScrapedWorks, MaxScraped) :
               VerifyAndUpdate(work_id, all_results)

(***************************************************************************)
(* Properties of the store                                                 *)
(***************************************************************************)

\* the deduplication key of a stored row
RowKey(row) == <<row.title_normalized, row.content_type>>

\* the deduplication key of a candidate; a candidate without a content type
\* has the key <<normalized title, None>>
CandidateKey(work) == <<NormalizedTitle[work.title], work.content_type>>

\* the rows a candidate's key is stored under (a missing content type is
\* written as "unknown")
RowsOf(work) ==
    { i \in DOMAIN store :
        /\ store[i].title_normalized = NormalizedTitle[work.title]
        /\ store[i].content_type =
              IF TruthyStr(work.content_type) THEN work.content_type ELSE "unknown" }

\* C1: the store holds at most one record per (normalizedTitle, contentType),
\* whatever candidates were ingested, including candidates with no
\* contentType.  (Refuted: two candidates without a content type and with the
\* same title are both inserted.)
C1_OneRecordPerKey ==
    \A i, j \in DOMAIN store : RowKey(store[i]) = RowKey(store[j]) => i = j

\* C2: after merging the candidates that share a key, in any order, the
\* stored dataConfidence for that key is the maximum of their confidences.
\* (Refuted through the duplicate rows of C1.)
C2_ConfidenceIsMaximum ==
    \A work \in ingested :
        \A i \in RowsOf(work) :
            store[i].data_confidence =
                MaxOf({ w.confidence : w \in { v \in ingested : CandidateKey(v) = CandidateKey(work) } })

C4_BackfillWhateverTheConfidence ==
    last.kind = "found" =>
        /\ (TruthyStr(last.cand.creator) /\ ~TruthyStr(last.before.creator)
              => store[last.id].creator = last.cand.creator)
        /\ (TruthyInt(last.cand.creator_death_year) /\ ~TruthyInt(last.before.creator_death_year)
              => store[last.id].creator_death_year = last.cand.creator_death_year)
        /\ (TruthyInt(last.cand.publication_year) /\ ~TruthyInt(last.before.publication_year)
              => store[last.id].publication_year = last.cand.publication_year)

(***************************************************************************)
(* WebScraper.search_all: routing, the adapters' network calls, gather     *)
(***************************************************************************)
\* the keys of WebScraper.scrapers, in insertion order
AllScrapers ==
    <<"openlib", "wikipedia", "musicbrainz", "imdb", "github", "patent", "trademark",
      "academic", "indian_copyright", "innovation", "startup", "research">>

Adapters == { AllScrapers[k] : k \in DOMAIN AllScrapers }

\* scrapers_to_use of search_all
scrapers_to_use(content_type) ==
    CASE content_type = "book" -> <<"openlib", "wikipedia", "indian_copyright">>
      [] content_type = "music" -> <<"musicbrainz", "wikipedia", "indian_copyright">>
      [] content_type = "film" -> <<"imdb", "wikipedia", "indian_copyright">>
      [] content_type \in {"software", "code", "library"} ->
            <<"github", "indian_copyright", "innovation">>
      [] content_type = "patent" -> <<"patent", "wikipedia", "innovation">>
      [] content_type = "trademark" -> <<"trademark">>
      [] content_type = "academic_paper" -> <<"academic", "research">>
      [] content_type \in {"project", "innovation", "drone", "technology"} ->
            <<"innovation", "research", "wikipedia", "patent">>
      [] content_type \in {"company", "startup"} -> <<"startup", "wikipedia">>
      [] content_type = "research_project" -> <<"research", "innovation", "academic">>
      [] OTHER -> AllScrapers

Selected(content_type) ==
    { scrapers_to_use(content_type)[k] : k \in DOMAIN scrapers_to_use(content_type) }

\* a ScrapedWork as an adapter builds it
Candidate(title, content_type, confidence, source) ==
    [title |-> title, content_type |-> content_type, confidence |-> confidence,
     source |-> source]

\* a parsed payload: nothing found, or one of the given candidates
NoneOrOne(cands) == {<<>>} \cup { <<c>> : c \in cands }

\* what a usable response to call number `call` of adapter a can be parsed
\* into, for a request of content_type
Yields(a, call, content_type) ==
    CASE a = "openlib" -> NoneOrOne({Candidate("ol doc", "book", 85, a)})
      [] a = "wikipedia" ->
            NoneOrOne({ Candidate("wiki page", t, 75, a) :
                          t \in IF TruthyStr(content_type) THEN {content_type}
                                ELSE {"book", "film", NoneStr} })
      [] a = "musicbrainz" -> NoneOrOne({Candidate("recording", "music", 90, a)})
      [] a = "imdb" -> NoneOrOne({Candidate("imdb title", "film", 85, a)})
      [] a = "github" -> NoneOrOne({Candidate("repository", "software", 90, a)})
      [] a = "patent" ->
            IF call = 1 THEN NoneOrOne({Candidate("us patent", "patent", 90, a)})
            ELSE NoneOrOne({Candidate("wiki page", "patent", 75, a)})
      [] a = "trademark" ->
            NoneOrOne({Candidate("wiki page", "trademark", 75, a),
                       Candidate("wiki page", "trademark", 60, a)})
      [] a = "academic" -> NoneOrOne({Candidate("openalex work", "academic_paper", 85, a)})
      [] a = "indian_copyright" ->
            IF call <= 3
            THEN NoneOrOne({ Candidate("register entry", t, 90, a) :
                               t \in {"film", IF TruthyStr(content_type)
                                              THEN content_type ELSE "book"} })
            ELSE IF call = 4
            THEN NoneOrOne({Candidate("fresh application",
                                      IF TruthyStr(content_type) THEN content_type ELSE "book",
                                      75, a)})
            ELSE NoneOrOne({ Candidate("wiki page", t, 65, a) : t \in {"music", content_type} })
      [] a = "innovation" ->
            IF call = 1 THEN NoneOrOne({Candidate("wiki page", "project", 70, a)})
            ELSE IF call = 2 THEN NoneOrOne({Candidate("paper", "research_project", 75, a)})
            ELSE NoneOrOne({Candidate("instant answer", "product", 65, a)})
      [] a = "startup" ->
            IF call = 1 THEN NoneOrOne({Candidate("wiki page", "company", 70, a)})
            ELSE NoneOrOne({Candidate("instant answer", "company", 65, a)})
      [] a = "research" ->
            IF call = 1 THEN NoneOrOne({Candidate("paper", "academic_paper", 80, a)})
            ELSE NoneOrOne({Candidate("preprint", "academic_paper", 85, a)})

\* how a network call can end: a usable response, the 30 s timeout, a status
\* other than 200, a connection error, or a 200 whose body has the wrong shape
CallOutcomes == {"ok", "timeout", "non2xx", "exception", "malformed"}

\* an adapter task: pc is "unused", "ready" (next call not yet sent),
\* "flight" (call sent, no answer yet), "done" (search returned results) or
\* "raised" (search raised); ok and timed_out are history
UnusedTask ==
    [pc |-> "unused", call |-> 0, results |-> <<>>, ok |-> FALSE, timed_out |-> FALSE]

NewTask ==
    [pc |-> "ready", call |-> 1, results |-> <<>>, ok |-> FALSE, timed_out |-> FALSE]

\* results[:10]
Head10(results) == SubSeq(results, 1, Min2(10, Len(results)))

\* IndianCopyrightScraper.search: remove duplicates by title, first one wins
DedupeByTitle(results) ==
    LET First(k) == \A j \in 1..(k - 1) : results[j].title # results[k].title
        Keep(r) == \E k \in DOMAIN results : results[k] = r /\ First(k)
    IN  SelectSeq(results, Keep)

Done(t, results) == [t EXCEPT !.pc = "done", !.results = results]

Raise(t) == [t EXCEPT !.pc = "raised", !.results = <<>>]

NextCall(t, call, results) == [t EXCEPT !.pc = "ready", !.call = call, !.results = results]

\* search() of the adapters that make one call and parse outside any try:
\* OpenLibrary, Wikipedia, MusicBrainz, IMDb, Trademark (through Wikipedia)
SingleCall(t, kind, items) ==
    CASE kind = "ok" -> Done(t, items)
      [] kind = "malformed" -> Raise(t)
      [] OTHER -> Done(t, <<>>)

\* search() of GitHubScraper and AcademicScraper: everything inside one try
GuardedCall(t, kind, items) ==
    IF kind = "ok" THEN Done(t, items) ELSE Done(t, <<>>)

\* PatentScraper.search: the POST, then _wikipedia_fallback from the handler
PatentCall(t, kind, items) ==
    IF t.call = 1
    THEN CASE kind = "ok" -> Done(t, items)
           [] kind = "non2xx" -> Done(t, <<>>)
           [] OTHER -> NextCall(t, 2, <<>>)
    ELSE SingleCall(t, kind, items)

\* search() of InnovationProjectScraper (3 sources), StartupCompanyScraper
\* (2) and ResearchDatabaseScraper (2): each source inside its own try
SourcesOf(a) == IF a = "innovation" THEN 3 ELSE 2

CollectingCall(a, t, kind, items) ==
    LET results == IF kind = "ok" THEN t.results \o items ELSE t.results
    IN  IF t.call < SourcesOf(a) THEN NextCall(t, t.call + 1, results)
        ELSE Done(t, Head10(results))

\* IndianCopyrightScraper.search: E_REGISTER_URLS[:3], then the form if fewer
\* than 5 results, then the fallback if fewer than 3
IndianCall(t, kind, items) ==
    LET results == IF kind = "ok" THEN t.results \o items ELSE t.results
        finish == Done(t, Head10(DedupeByTitle(results)))
    IN  IF t.call < 3 /\ Len(results) < 10 THEN NextCall(t, t.call + 1, results)
        ELSE IF t.call <= 3 /\ Len(results) < 5 THEN NextCall(t, 4, results)
        ELSE IF t.call <= 4 /\ Len(results) < 3 THEN NextCall(t, 5, results)
        ELSE finish

\* the task of adapter a after its call in flight ended as `kind`
AfterCall(a, t, kind, items) ==
    LET u == [t EXCEPT !.ok = @ \/ kind = "ok", !.timed_out = @ \/ kind = "timeout"]
    IN  CASE a \in {"openlib", "wikipedia", "musicbrainz", "imdb", "trademark"} ->
                SingleCall(u, kind, items)
          [] a \in {"github", "academic"} -> GuardedCall(u, kind, items)
          [] a = "patent" -> PatentCall(u, kind, items)
          [] a = "indian_copyright" -> IndianCall(u, kind, items)
          [] OTHER -> CollectingCall(a, u, kind, items)

\* OpenLibrary, MusicBrainz and IMDb return [] at once for another type
ReturnsAtOnce(a, content_type) ==
    /\ TruthyStr(content_type)
    /\ \/ a = "openlib" /\ content_type # "book"
       \/ a = "musicbrainz" /\ content_type # "music"
       \/ a = "imdb" /\ content_type # "film"

\* gather without return_exceptions
ReturnExceptionsOff == FALSE

\* asyncio.gather(*tasks, return_exceptions=True)
return_exceptions == TRUE

\* a request without a timeout
NoClientTimeout == FALSE

\* timeout=aiohttp.ClientTimeout(total=30) on every get and post
ClientTimeoutSet == TRUE

\* all_results after the loop over gather's results, for the first k tasks
RECURSIVE Extended(_, _, _)
Extended(order, tasks, k) ==
    IF k = 0 THEN <<>>
    ELSE LET result == tasks[order[k]]
         IN  IF result.pc = "raised" THEN Extended(order, tasks, k - 1)
             ELSE Extended(order, tasks, k - 1) \o result.results

NoOutcome == [raised |-> FALSE, results |-> <<>>]

InitScrapeVars ==
    /\ sc_pc = "idle"
    /\ sc_type = NoneStr
    /\ sc_tasks = [a \in Adapters |-> UnusedTask]
    /\ sc_out = NoOutcome

\* search_all(query, content_type) up to `await asyncio.gather(...)`
SearchAllBegin(content_type) ==
    /\ sc_pc = "idle"
    /\ sc_pc' = "gather"
    /\ sc_type' = content_type
    /\ sc_tasks' = [a \in Adapters |->
                      IF a \in Selected(content_type) THEN NewTask ELSE UnusedTask]
    /\ sc_out' = NoOutcome
    /\ UNCHANGED notScrape

\* adapter a runs up to its next network call: sleep(rate_limit_delay), send
AdapterSends(a) ==
    /\ sc_pc = "gather"
    /\ sc_tasks[a].pc = "ready"
    /\ sc_tasks' = [sc_tasks EXCEPT ![a] =
                      IF ReturnsAtOnce(a, sc_type) THEN Done(@, <<>>)
                      ELSE [@ EXCEPT !.pc = "flight"]]
    /\ UNCHANGED <<sc_pc, sc_type, sc_out>>
    /\ UNCHANGED notScrape

\* the upstream of adapter a answers, or the connection fails
UpstreamAnswers(a, kind, items) ==
    /\ sc_pc = "gather"
    /\ sc_tasks[a].pc = "flight"
    /\ kind # "timeout"
    /\ kind = "ok" \/ items = <<>>
    /\ sc_tasks' = [sc_tasks EXCEPT ![a] = AfterCall(a, @, kind, items)]
    /\ UNCHANGED <<sc_pc, sc_type, sc_out>>
    /\ UNCHANGED notScrape

\* no answer within the total timeout of the request
CallTimesOut(a) ==
    /\ sc_pc = "gather"
    /\ sc_tasks[a].pc = "flight"
    /\ ClientTimeoutSet
    /\ sc_tasks' = [sc_tasks EXCEPT ![a] = AfterCall(a, @, "timeout", <<>>)]
    /\ UNCHANGED <<sc_pc, sc_type, sc_out>>
    /\ UNCHANGED notScrape

\* gather completes; search_all skips the exceptions, filters, sorts, returns
GatherReturns ==
    /\ sc_pc = "gather"
    /\ \A a \in Selected(sc_type) : sc_tasks[a].pc \in {"done", "raised"}
    /\ sc_pc' = "returned"
    /\ LET order == scrapers_to_use(sc_type)
           propagates == ~return_exceptions /\ \E a \in Selected(sc_type) : sc_tasks[a].pc = "raised"
       IN  sc_out' = IF propagates THEN [raised |-> TRUE, results |-> <<>>]
                     ELSE [raised |-> FALSE,
                           results |-> FilterAndSort(Extended(order, sc_tasks, Len(order)),
                                                     sc_type)]
    /\ UNCHANGED <<sc_type, sc_tasks>>
    /\ UNCHANGED notScrape

\* the caller has taken the result
SearchAllConsumed ==
    /\ sc_pc = "returned"
    /\ sc_pc' = "idle"
    /\ sc_type' = NoneStr
    /\ sc_tasks' = [a \in Adapters |-> UnusedTask]
    /\ sc_out' = NoOutcome
    /\ UNCHANGED notScrape

\* the requested types explored: every route of at most three adapters
RequestedTypes ==
    {"book", "music", "film", "software", "patent", "trademark", "academic_paper",
     "company", "startup", "research_project"}

\* the requested types explored under fairness
LiveTypes == {"patent", "trademark", "startup"}

ScrapeStep ==
    \/ \E a \in Adapters : AdapterSends(a)
    \/ \E a \in Adapters : \E kind \in CallOutcomes :
          \E items \in Yields(a, sc_tasks[a].call, sc_type) :
              UpstreamAnswers(a, kind, items)
    \/ \E a \in Adapters : CallTimesOut(a)
    \/ GatherReturns
    \/ SearchAllConsumed

NextScrape ==
    \/ \E content_type \in RequestedTypes : SearchAllBegin(content_type)
    \/ ScrapeStep

NextScrapeLive ==
    \/ \E content_type \in LiveTypes : SearchAllBegin(content_type)
    \/ ScrapeStep

(***************************************************************************)
(* The spell corrector (ai_search/spell_corrector.py)                      *)
(***************************************************************************)
\* a dict given as its set of <<key, value>> items
DictOf(items) ==
    [k \in {item[1] : item \in items} |->
        (CHOOSE item \in items : item[1] = k)[2]]

\* d[k] = v
DictSet(d, k, v) == [x \in DOMAIN d \cup {k} |-> IF x = k THEN v ELSE d[x]]

\* "common misspellings for famous works", the curated table
known_corrections ==
    DictOf({
      <<<<"h", "a", "r", "r", "y", " ", "p", "o", "t", "e", "r">>,
        <<"h", "a", "r", "r", "y", " ", "p", "o", "t", "t", "e", "r">>>>,
      <<<<"h", "a", "r", "y", " ", "p", "o", "t", "t", "e", "r">>,
        <<"h", "a", "r", "r", "y", " ", "p", "o", "t", "t", "e", "r">>>>,
      <<<<"h", "a", "r", "r", "r", "y", " ", "p", "o", "t", "t", "e", "r">>,
        <<"h", "a", "r", "r", "y", " ", "p", "o", "t", "t", "e", "r">>>>,
      <<<<"l", "o", "r", "d", " ", "o", "f", " ", "t", "h", "e", " ", "r", "i", "n", "g">>,
        <<"l", "o", "r", "d", " ", "o", "f", " ", "t", "h", "e", " ", "r", "i", "n", "g", "s">>>>,
      <<<<"s", "t", "a", "r", "w", "a", "r", "s">>,
        <<"s", "t", "a", "r", " ", "w", "a", "r", "s">>>>,
      <<<<"s", "t", "a", "r", " ", "w", "a", "r">>,
        <<"s", "t", "a", "r", " ", "w", "a", "r", "s">>>>,
      <<<<"b", "e", "a", "t", "l", "e", "s">>,
        <<"t", "h", "e", " ", "b", "e", "a", "t", "l", "e", "s">>>>,
      <<<<"s", "h", "a", "k", "e", "s", "p", "e", "a", "r">>,
        <<"s", "h", "a", "k", "e", "s", "p", "e", "a", "r", "e">>>>,
      <<<<"s", "h", "a", "k", "s", "p", "e", "a", "r", "e">>,
        <<"s", "h", "a", "k", "e", "s", "p", "e", "a", "r", "e">>>>,
      <<<<"r", "o", "m", "e", "o", " ", "j", "u", "l", "i", "e", "t">>,
        <<"r", "o", "m", "e", "o", " ", "a", "n", "d", " ", "j", "u", "l", "i", "e", "t">>>>,
      <<<<"m", "i", "c", "h", "e", "a", "l", " ", "j", "a", "c", "k", "s", "o", "n">>,
        <<"m", "i", "c", "h", "a", "e", "l", " ", "j", "a", "c", "k", "s", "o", "n">>>>,
      <<<<"m", "i", "c", "h", "e", "a", "l">>,
        <<"m", "i", "c", "h", "a", "e", "l">>>>,
      <<<<"l", "e", "n", "o", "n">>,
        <<"l", "e", "n", "n", "o", "n">>>>,
      <<<<"b", "e", "e", "t", "h", "o", "v", "n">>,
        <<"b", "e", "e", "t", "h", "o", "v", "e", "n">>>>,
      <<<<"m", "o", "z", "a", "r", "d">>,
        <<"m", "o", "z", "a", "r", "t">>>>,
      <<<<"t", "o", "l", "s", "t", "o", "i">>,
        <<"t", "o", "l", "s", "t", "o", "y">>>>,
      <<<<"d", "o", "s", "t", "o", "e", "v", "s", "k", "y">>,
        <<"d", "o", "s", "t", "o", "y", "e", "v", "s", "k", "y">>>>,
      <<<<"h", "e", "m", "m", "i", "n", "g", "w", "a", "y">>,
        <<"h", "e", "m", "i", "n", "g", "w", "a", "y">>>>,
      <<<<"f", "i", "t", "z", "g", "e", "r", "l", "d">>,
        <<"f", "i", "t", "z", "g", "e", "r", "a", "l", "d">>>> })

known_splits ==
    DictOf({
      <<<<"h", "a", "r", "r", "y", "p", "o", "t", "t", "e", "r">>,
        <<"h", "a", "r", "r", "y", " ", "p", "o", "t", "t", "e", "r">>>>,
      <<<<"l", "o", "r", "d", "o", "f", "t", "h", "e", "r", "i", "n", "g", "s">>,
        <<"l", "o", "r", "d", " ", "o", "f", " ", "t", "h", "e", " ", "r", "i", "n", "g", "s">>>>,
      <<<<"s", "t", "a", "r", "w", "a", "r", "s">>,
        <<"s", "t", "a", "r", " ", "w", "a", "r", "s">>>>,
      <<<<"g", "a", "m", "e", "o", "f", "t", "h", "r", "o", "n", "e", "s">>,
        <<"g", "a", "m", "e", " ", "o", "f", " ", "t", "h", "r", "o", "n", "e", "s">>>> })

\* Optional[str] None, among texts
NoneText == <<NoneStr>>

\* text.lower().strip()
LowerStrip(text) == Strip(Lower(text))

\* counter[word] += 1 for each of the words that is at least min_len long
RECURSIVE CountWords(_, _, _)
CountWords(counter, words, min_len) ==
    IF words = <<>> THEN counter
    ELSE LET word == words[1]
             counted ==
                 IF Len(word) < min_len THEN counter
                 ELSE DictSet(counter, word,
                              IF word \in DOMAIN counter THEN counter[word] + 1
                              ELSE 1)
         IN  CountWords(counted, Tail(words), min_len)

\* every string one edit away from word
_edits1(word) ==
    LET n == Len(word)
        letters == {LowerLetters[i] : i \in 1..Len(LowerLetters)}
        L(i) == SubSeq(word, 1, i)
        R(i) == SubSeq(word, i + 1, n)
        deletes == {L(i) \o Tail(R(i)) : i \in 0..(n - 1)}
        transposes ==
            {L(i) \o <<word[i + 2], word[i + 1]>> \o SubSeq(word, i + 3, n) :
                 i \in 0..(n - 2)}
        replaces ==
            {L(i[1]) \o <<i[2]>> \o Tail(R(i[1])) : i \in (0..(n - 1)) \X letters}
        inserts ==
            {L(i[1]) \o <<i[2]>> \o R(i[1]) : i \in (0..n) \X letters}
    IN  deletes \cup transposes \cup replaces \cup inserts

\* w \in _edits1(word), decided without building the set
InEdits1(word, w) ==
    LET n == Len(word)
        m == Len(w)
        IsLetter(c) == \E i \in 1..Len(LowerLetters) : LowerLetters[i] = c
        Without(s, i) == SubSeq(s, 1, i - 1) \o SubSeq(s, i + 1, Len(s))
    IN  \/ m = n - 1 /\ \E i \in 1..n : w = Without(word, i)
        \/ m = n /\ \E i \in 1..(n - 1) :
               w = [word EXCEPT ![i] = word[i + 1], ![i + 1] = word[i]]
        \/ m = n /\ \E i \in 1..n : IsLetter(w[i]) /\ w = [word EXCEPT ![i] = w[i]]
        \/ m = n + 1 /\ \E i \in 1..m : IsLetter(w[i]) /\ word = Without(w, i)

\* the words of _word_freq within one edit, else within two
_get_candidates(word) ==
    LET edits1 == _edits1(word)
        candidates == {w \in DOMAIN word_freq : w \in edits1}
    IN  IF candidates # {} THEN candidates
        ELSE {w \in DOMAIN word_freq : \E e1 \in edits1 : InEdits1(e1, w)}

\* what _correct_word can return: max() over a set takes the first of the
\* most frequent candidates in the set's iteration order, which the hash
\* seed of the process decides
_correct_word(word) ==
    IF Len(word) < 3 THEN {word}
    ELSE IF word \in DOMAIN word_freq THEN {word}
    ELSE LET candidates == _get_candidates(word)
         IN  IF candidates = {} THEN {word}
             ELSE {w \in candidates :
                      \A x \in candidates : word_freq[x] <= word_freq[w]}

\* greedy splitting: the longest known prefix of two characters or more,
\* else one character
RECURSIVE SplitRemaining(_)
SplitRemaining(remaining) ==
    IF remaining = <<>> THEN <<>>
    ELSE LET ends == {end \in 1..Len(remaining) :
                         /\ SubSeq(remaining, 1, end) \in DOMAIN word_freq
                         /\ end >= 2}
         IN  IF ends # {}
             THEN <<SubSeq(remaining, 1, MaxOf(ends))>>
                      \o SplitRemaining(SubSeq(remaining, MaxOf(ends) + 1,
                                               Len(remaining)))
             ELSE <<<<remaining[1]>>>> \o SplitRemaining(Tail(remaining))

_split_words(text) ==
    IF DOMAIN word_freq = {} THEN text ELSE Join(SplitRemaining(text))

_try_split_words(text) ==
    IF text \in DOMAIN known_splits THEN known_splits[text]
    ELSE LET result == _split_words(text)
         IN  IF result # <<>> /\ Len(Split(result)) > 1 THEN result
             ELSE NoneText

\* step 3 of correct, on the first k words: the possible
\* <<corrected_words, was_corrected>>
RECURSIVE CorrectedWords(_, _)
CorrectedWords(words, k) ==
    IF k = 0 THEN {<<<<>>, FALSE>>}
    ELSE LET word == words[k]
             choices ==
                 IF word \in DOMAIN known_corrections
                 THEN {<<known_corrections[word], TRUE>>}
                 ELSE IF word \in DOMAIN learned_corrections
                 THEN {<<learned_corrections[word], TRUE>>}
                 ELSE {<<corrected_word, corrected_word # word>> :
                          corrected_word \in _correct_word(word)}
         IN  {<<Append(before[1], choice[1]), before[2] \/ choice[2]>> :
                  before \in CorrectedWords(words, k - 1), choice \in choices}

\* steps 3 and 4 of correct
WordLevel(original) ==
    LET words == Split(original)
    IN  {IF ~done[2] /\ ~Contains(original, <<" ">>)
         THEN LET split_result == _try_split_words(original)
              IN  IF /\ split_result # NoneText
                     /\ split_result # <<>>
                     /\ split_result # original
                  THEN <<split_result, TRUE>>
                  ELSE <<Join(done[1]), done[2]>>
         ELSE <<Join(done[1]), done[2]>> :
             done \in CorrectedWords(words, Len(words))}

\* correct with the learned table consulted before the curated one
CorrectLearnedFirst(text) ==
    IF text = <<>> THEN {<<text, FALSE>>}
    ELSE LET original == LowerStrip(text)
         IN  IF original \in DOMAIN learned_corrections
             THEN {<<learned_corrections[original], TRUE>>}
             ELSE IF original \in DOMAIN known_corrections
             THEN {<<known_corrections[original], TRUE>>}
             ELSE IF original \in known_titles
             THEN {<<text, FALSE>>}
             ELSE WordLevel(original)

\* the possible <<corrected_text, was_corrected>> of correct(text)
correct(text) ==
    IF text = <<>> THEN {<<text, FALSE>>}
    ELSE LET original == LowerStrip(text)
         IN  IF original \in DOMAIN known_corrections
             THEN {<<known_corrections[original], TRUE>>}
             ELSE IF original \in DOMAIN learned_corrections
             THEN {<<learned_corrections[original], TRUE>>}
             ELSE IF original \in known_titles
             THEN {<<text, FALSE>>}
             ELSE WordLevel(original)

\* learn_from_search that records no correction
LearnsNothing(query, selected_title) == learned_corrections

\* _learned_corrections after learn_from_search(query, selected_title)
LearnedAfter(query, selected_title) ==
    LET query_normalized == LowerStrip(query)
        title_normalized == LowerStrip(selected_title)
    IN  IF query_normalized # title_normalized
        THEN DictSet(learned_corrections, query_normalized, title_normalized)
        ELSE learned_corrections

\* how many learn_from_search and add_known_titles calls are explored
MaxLearned == 2

qEmpty == <<>>

qStarWar == <<"s", "t", "a", "r", " ", "w", "a", "r">>

qStarWarLoud == <<" ", "S", "t", "a", "r", " ", "W", "a", "r">>

qStarTrec == <<"s", "t", "a", "r", " ", "t", "r", "e", "c">>

qStartrek == <<"s", "t", "a", "r", "t", "r", "e", "k">>

tStarWars == <<"S", "t", "a", "r", " ", "W", "a", "r", "s">>

tStarTrek == <<"S", "t", "a", "r", " ", "T", "r", "e", "k", "!">>

tTrek == <<"t", "r", "e", "k">>

\* what users type
Queries == {qEmpty, qStarWar, qStarWarLoud, qStarTrec, qStartrek, tStarWars}

\* what they select, and what the catalogue holds
SelectedTitles == {tStarWars, tStarTrek, tTrek}

NoCall == [op |-> "none", text |-> <<>>, title |-> <<>>, result |-> <<<<>>, FALSE>>]

InitCorrectorVars ==
    /\ learned_corrections = DictOf({})
    /\ word_freq = DictOf({})
    /\ known_titles = {}
    /\ co_calls = 0
    /\ co_last = NoCall

learn_from_search(query, selected_title) ==
    /\ co_calls < MaxLearned
    /\ learned_corrections' = LearnedAfter(query, selected_title)
    /\ known_titles' = known_titles \cup {LowerStrip(selected_title)}
    /\ word_freq' = CountWords(word_freq, Split(LowerStrip(selected_title)), 0)
    /\ co_calls' = co_calls + 1
    /\ co_last' = [op |-> "learn", text |-> query, title |-> selected_title,
                   result |-> <<<<>>, FALSE>>]
    /\ UNCHANGED notCorrector

\* add_known_titles([title])
add_known_titles(title) ==
    /\ co_calls < MaxLearned
    /\ known_titles' = known_titles \cup {LowerStrip(title)}
    /\ word_freq' = CountWords(word_freq, Split(LowerStrip(title)), 2)
    /\ co_calls' = co_calls + 1
    /\ co_last' = [op |-> "add", text |-> <<>>, title |-> title,
                   result |-> <<<<>>, FALSE>>]
    /\ UNCHANGED <<learned_corrections, notCorrector>>

Correct(text) ==
    /\ \E result \in correct(text) :
           co_last' = [op |-> "correct", text |-> text, title |-> <<>>,
                       result |-> result]
    /\ UNCHANGED <<learned_corrections, word_freq, known_titles, co_calls,
                   notCorrector>>

NextCorrector ==
    \/ \E query \in Queries : \E selected_title \in SelectedTitles :
           learn_from_search(query, selected_title)
    \/ \E title \in SelectedTitles : add_known_titles(title)
    \/ \E text \in Queries \cup SelectedTitles : Correct(text)

(***************************************************************************)
(* The relevance scorer (ai_search/search_engine.py) with its fuzzy and    *)
(* embedding signals (ai_search/semantic_search.py)                        *)
(***************************************************************************)
\* the largest of a non-empty set of fractions
FMaxOf(S) == CHOOSE m \in S : \A x \in S : FLe(x, m)

\* FuzzyMatcher.levenshtein_ratio; distances[len1][len2] is the last cell of
\* the last row of the matrix
levenshtein_ratio(s1, s2) ==
    IF s1 = <<>> \/ s2 = <<>> THEN FZero
    ELSE LET x1 == Lower(s1)
             x2 == Lower(s2)
         IN  IF x1 = x2 THEN FOne
             ELSE LET distance == LevRows(x1, x2, Len(x1))[Len(x2) + 1]
                      max_len == Max2(Len(x1), Len(x2))
                  IN  FSub(FOne, Frac(distance, max_len))

\* FuzzyMatcher.token_set_ratio
token_set_ratio(s1, s2) ==
    IF s1 = <<>> \/ s2 = <<>> THEN FZero
    ELSE LET words1 == Split(Lower(s1))
             words2 == Split(Lower(s2))
             tokens1 == {words1[i] : i \in 1..Len(words1)}
             tokens2 == {words2[i] : i \in 1..Len(words2)}
         IN  IF tokens1 = {} \/ tokens2 = {} THEN FZero
             ELSE Frac(Cardinality(tokens1 \cap tokens2),
                       Cardinality(tokens1 \cup tokens2))

\* FuzzyMatcher.partial_ratio: the shorter text slid over the longer
partial_ratio(s1, s2) ==
    IF s1 = <<>> \/ s2 = <<>> THEN FZero
    ELSE LET swap == Len(s1) > Len(s2)
             x1 == IF swap THEN Lower(s2) ELSE Lower(s1)
             x2 == IF swap THEN Lower(s1) ELSE Lower(s2)
         IN  FMaxOf({FZero} \cup
                    {levenshtein_ratio(x1, SubSeq(x2, i + 1, i + Len(x1))) :
                         i \in 0..(Len(x2) - Len(x1))})

\* FuzzyMatcher.combined_score
combined_score(s1, s2) ==
    FAdd(FMul(<<4, 10>>, levenshtein_ratio(s1, s2)),
         FAdd(FMul(<<3, 10>>, token_set_ratio(s1, s2)),
              FMul(<<3, 10>>, partial_ratio(s1, s2))))

\* np.linalg.norm of a vector whose length is a whole number
Norm(vec) ==
    CHOOSE n \in 0..(Abs(vec[1]) + Abs(vec[2])) :
        n * n = vec[1] * vec[1] + vec[2] * vec[2]

\* SemanticMatcher._cosine_similarity
_cosine_similarity(vec1, vec2) ==
    LET norm1 == Norm(vec1)
        norm2 == Norm(vec2)
    IN  IF norm1 = 0 \/ norm2 = 0 THEN FZero
        ELSE Frac(vec1[1] * vec2[1] + vec1[2] * vec2[2], norm1 * norm2)

\* np.zeros(384), in the two dimensions the model keeps
ZeroVector == <<0, 0>>

\* what the embedding model can answer for a text
Encodings == {<<1, 0>>, <<0 - 1, 0>>, <<3, 4>>}

exact_weight == <<35, 100>>

phrase_weight == <<25, 100>>

semantic_weight == <<25, 100>>

fuzzy_weight == <<15, 100>>

StopWords ==
    {<<"t", "h", "e">>, <<"a">>, <<"a", "n">>, <<"o", "f">>, <<"f", "o", "r">>, <<"a", "n", "d">>, <<"o", "r">>, <<"i", "n">>, <<"o", "n">>, <<"a", "t">>, <<"t", "o">>, <<"b", "y">>}

\* _analyze_query(query)['min_word_match_ratio']
AnalyzedMinRatio(query) ==
    LET split == Split(Lower(normalize_title(query)))
        words == {split[i] : i \in 1..Len(split)}
        is_multi_word == Cardinality(words) > 1
        is_phrase ==
            is_multi_word /\ ~\E w \in words : Len(w) < 4 /\ w \in StopWords
    IN  IF is_phrase THEN <<7, 10>> ELSE <<3, 10>>

\* a query analysis, as far as the scorer reads it
NoAnalysis == [given |-> FALSE, min_word_match_ratio |-> FZero]

Analyses == {NoAnalysis, [given |-> TRUE, min_word_match_ratio |-> <<3, 10>>]}

\* the exact match component
ExactScore(normalized_query, normalized_title) ==
    IF normalized_query = normalized_title THEN FOne
    ELSE IF Contains(normalized_title, normalized_query) THEN <<85, 100>>
    ELSE IF Contains(normalized_query, normalized_title) THEN <<6, 10>>
    ELSE FZero

\* the phrase component without the penalty for a low overlap
PhraseScoreUnpenalized(normalized_query, normalized_title, min_ratio) ==
    LET query_words == Split(normalized_query)
        n == Len(query_words)
        matching_words ==
            Cardinality({i \in 1..n : Contains(normalized_title, query_words[i])})
        consecutive_matches ==
            Cardinality({i \in 1..(n - 1) :
                Contains(normalized_title,
                         query_words[i] \o <<" ">> \o query_words[i + 1])})
    IN  IF n > 1
        THEN FAdd(FMul(Frac(matching_words, n), <<7, 10>>),
                  IF consecutive_matches > 0
                  THEN FMul(<<3, 10>>, Frac(consecutive_matches, n - 1))
                  ELSE FZero)
        ELSE FZero

\* the phrase and word overlap component
PhraseScore(normalized_query, normalized_title, min_ratio) ==
    LET query_words == Split(normalized_query)
        title_words == Split(normalized_title)
        n == Len(query_words)
    IN  IF n > 1
        THEN LET matching_words ==
                     Cardinality({i \in 1..n :
                                     Contains(normalized_title, query_words[i])})
                 word_overlap_ratio == Frac(matching_words, n)
                 consecutive_matches ==
                     Cardinality({i \in 1..(n - 1) :
                         Contains(normalized_title,
                                  query_words[i] \o <<" ">> \o query_words[i + 1])})
                 overlap == FMul(word_overlap_ratio, <<7, 10>>)
                 phrase_score ==
                     IF consecutive_matches > 0
                     THEN FAdd(overlap,
                               FMul(<<3, 10>>, Frac(consecutive_matches, n - 1)))
                     ELSE overlap
             IN  IF FLt(word_overlap_ratio, min_ratio)
                 THEN FMul(phrase_score, <<2, 10>>)
                 ELSE phrase_score
        ELSE IF \E i \in 1..Len(title_words) : title_words[i] = normalized_query
        THEN <<8, 10>>
        ELSE IF Contains(normalized_title, normalized_query) THEN <<5, 10>>
        ELSE FZero

\* (work.data_confidence or 0.5) * 0.05, data_confidence in hundredths
ConfidenceBoost(data_confidence) ==
    FMul(IF TruthyInt(data_confidence) THEN Frac(data_confidence, 100)
         ELSE <<1, 2>>,
         <<5, 100>>)

\* the weighted sum of the signals, before the cap
Combined(query, title, data_confidence, min_ratio, semantic_score) ==
    LET normalized_query == Lower(normalize_title(query))
        normalized_title == Lower(normalize_title(title))
        exact_score == ExactScore(normalized_query, normalized_title)
        phrase_score == PhraseScore(normalized_query, normalized_title, min_ratio)
        fuzzy_score == combined_score(query, title)
        fuzzy_part ==
            IF Len(Split(normalized_query)) > 1
            THEN FMul(FMul(fuzzy_weight, fuzzy_score), <<1, 2>>)
            ELSE FMul(fuzzy_weight, fuzzy_score)
    IN  FAdd(FMul(exact_weight, exact_score),
             FAdd(FMul(phrase_weight, phrase_score),
                  FAdd(FMul(semantic_weight, semantic_score),
                       FAdd(fuzzy_part, ConfidenceBoost(data_confidence)))))

qOldWar == <<"o", "l", "d", " ", "w", "a", "r">>

qZq == <<"z", "q">>

\* three words, two of them found side by side in "old war"
qDWX == <<"d", " ", "w", " ", "x">>

tOldWar == <<"O", "l", "d", " ", "W", "a", "r">>

tXy == <<"x", "y">>

\* the queries scored
ScoredQueries == {qOldWar, qZq, qDWX}

\* the rows scored: title (None for a row without one) and data_confidence
\* in hundredths (None for a row without one)
ScoredWorks ==
    [title : {tOldWar, tXy, NoneText}, data_confidence : {NoneInt, 0, 100}]

\* work.title or ""
TitleOf(work) == IF work.title = NoneText THEN <<>> ELSE work.title

\* the part of the sum that does not depend on the embeddings, evaluated
\* once for the queries and rows that occur, with the semantic signal at zero
CombinedRows ==
    {<<call,
       Combined(call[1], TitleOf(call[2]), call[2].data_confidence,
                IF call[3].given THEN call[3].min_word_match_ratio
                ELSE AnalyzedMinRatio(call[1]),
                FZero)>> :
         call \in ScoredQueries \X ScoredWorks \X Analyses}

CombinedWithoutSemantic == DictOf(CombinedRows)

\* query_analysis.get('min_word_match_ratio', 0.3), after
\* `if query_analysis is None: query_analysis = self._analyze_query(query)`
MinRatioOf(query, query_analysis) ==
    IF query_analysis.given THEN query_analysis.min_word_match_ratio
    ELSE AnalyzedMinRatio(query)

\* min_ratio and the phrase signal of each call, evaluated once
PhraseRows ==
    {<<call,
       [min_ratio |-> MinRatioOf(call[1], call[3]),
        phrase_score |->
            PhraseScore(Lower(normalize_title(call[1])),
                        Lower(normalize_title(TitleOf(call[2]))),
                        MinRatioOf(call[1], call[3]))]>> :
         call \in ScoredQueries \X ScoredWorks \X Analyses}

PhraseSignal == DictOf(PhraseRows)

\* utils.normalize_title, evaluated once for the texts that occur
NormalizedRows ==
    {<<text, normalize_title(text)>> :
         text \in ScoredQueries \cup {TitleOf(work) : work \in ScoredWorks}}

NormalizedText == DictOf(NormalizedRows)

\* SemanticMatcher.compute_embedding(text) with cache as _embeddings_cache,
\* when the model would encode the text as `encoded`: the embedding and the
\* cache afterwards
compute_embedding(cache, text, encoded) ==
    IF text = <<>> THEN [embedding |-> ZeroVector, cache |-> cache]
    ELSE LET normalized == NormalizedText[text]
         IN  IF normalized \in DOMAIN cache
             THEN [embedding |-> cache[normalized], cache |-> cache]
             ELSE [embedding |-> encoded,
                   cache |-> DictSet(cache, normalized, encoded)]


\* min(combined, 1.0)
CapAtOne(combined) == FMin(combined, FOne)

NoScore ==
    [op |-> "none", query |-> <<>>, title |-> <<>>, data_confidence |-> NoneInt,
     min_ratio |-> FZero, phrase_score |-> FZero,
     semantic_score |-> FZero, confidence_boost |-> FZero, score |-> FZero]

InitScoreVars ==
    /\ embeddings_cache = DictOf({})
    /\ sr_last = NoScore

\* what the model may be asked to encode: nothing new when the text is
\* empty or cached
EncodingsFor(cache, text) ==
    IF text = <<>> \/ NormalizedText[text] \in DOMAIN cache
    THEN {ZeroVector} ELSE Encodings

\* _calculate_relevance_score(query, work, query_analysis), when encoded1 and
\* encoded2 are the model's answers for the query and the title
SemanticScore(query, work, encoded1, encoded2) ==
    LET first == compute_embedding(embeddings_cache, query, encoded1)
        second == compute_embedding(first.cache, TitleOf(work), encoded2)
    IN  [semantic_score |-> _cosine_similarity(first.embedding, second.embedding),
         cache |-> second.cache]

_calculate_relevance_score(query, work, query_analysis, encoded1, encoded2) ==
    /\ embeddings_cache' = SemanticScore(query, work, encoded1, encoded2).cache
    /\ sr_last' =
           [op |-> "score", query |-> query, title |-> work.title,
            data_confidence |-> work.data_confidence,
            min_ratio |-> PhraseSignal[<<query, work, query_analysis>>].min_ratio,
            phrase_score |->
                PhraseSignal[<<query, work, query_analysis>>].phrase_score,
            semantic_score |->
                SemanticScore(query, work, encoded1, encoded2).semantic_score,
            confidence_boost |-> ConfidenceBoost(work.data_confidence),
            score |->
                CapAtOne(FAdd(
                    CombinedWithoutSemantic[<<query, work, query_analysis>>],
                    FMul(semantic_weight,
                         SemanticScore(query, work, encoded1, encoded2).semantic_score)))]
    /\ UNCHANGED notScore

clear_cache ==
    /\ embeddings_cache' = DictOf({})
    /\ UNCHANGED <<sr_last, notScore>>

NextScore ==
    \/ \E query \in ScoredQueries : \E work \in ScoredWorks :
           \E query_analysis \in Analyses :
               \E encoded1 \in EncodingsFor(embeddings_cache, query) :
                   \E encoded2 \in EncodingsFor(
                           compute_embedding(embeddings_cache, query, encoded1).cache,
                           TitleOf(work)) :
                       _calculate_relevance_score(query, work, query_analysis,
                                                  encoded1, encoded2)
    \/ clear_cache

(***************************************************************************)
(* AISearchEngine._rank_and_deduplicate (ai_search/search_engine.py)       *)
(***************************************************************************)
\* how long a list of results is ranked
MaxRanked == 3

tOldWarLoud == <<"o", "l", "d", " ", "w", "a", "r", "!">>

\* titles of the rows ranked; two of them normalize to the same text
RankedTitles == {tOldWar, tOldWarLoud, tXy, NoneText}

\* (work, score) pairs handed to the ranker
RankedEntries ==
    [work : [title : RankedTitles], score : {<<1, 10>>, <<1, 2>>, <<9, 10>>}]

\* normalize_title(work.title), evaluated once for the titles that occur
RankedNormalizedRows ==
    {<<title, normalize_title(IF title = NoneText THEN <<>> ELSE title)>> :
         title \in RankedTitles}

RankedNormalized == DictOf(RankedNormalizedRows)

\* [(work, score) for work, score in results if score >= min_score]
FilterByScore(results, min_score) ==
    LET Keep(r) == FLe(min_score, r.score)
    IN  SelectSeq(results, Keep)

\* the filtered list with nothing removed
KeepDuplicates(filtered_results) == filtered_results

\* the loop over filtered_results: the first entry of each normalized title
RECURSIVE UniqueResults(_)
UniqueResults(filtered_results) ==
    IF filtered_results = <<>> THEN <<>>
    ELSE LET n == Len(filtered_results)
             before == UniqueResults(SubSeq(filtered_results, 1, n - 1))
             normalized == RankedNormalized[filtered_results[n].work.title]
         IN  IF \E i \in 1..Len(before) :
                    RankedNormalized[before[i].work.title] = normalized
             THEN before
             ELSE Append(before, filtered_results[n])

\* the list left in the order the loop built it
LeftUnsorted(rs) == rs

\* list.sort(key=score, reverse=True): stable, equal scores keep their order
RECURSIVE SortByScore(_)
SortByScore(rs) ==
    IF rs = <<>> THEN <<>>
    ELSE LET n == Len(rs)
             sorted == SortByScore(SubSeq(rs, 1, n - 1))
             ahead == Cardinality({i \in 1..Len(sorted) :
                                      FLe(rs[n].score, sorted[i].score)})
         IN  SubSeq(sorted, 1, ahead) \o <<rs[n]>>
                 \o SubSeq(sorted, ahead + 1, Len(sorted))

_rank_and_deduplicate(results, max_results, min_score) ==
    LET sorted == SortByScore(UniqueResults(FilterByScore(results, min_score)))
    IN  SubSeq(sorted, 1, Min2(max_results, Len(sorted)))

NoRanking ==
    [op |-> "none", results |-> <<>>, max_results |-> 0, min_score |-> FZero,
     returned |-> <<>>]

InitRankVars == rk_last = NoRanking

\* one call at a time: the caller takes the list before it ranks again
RankAndDeduplicate(results, max_results, min_score) ==
    /\ rk_last.op = "none"
    /\ rk_last' = [op |-> "rank", results |-> results, max_results |-> max_results,
                   min_score |-> min_score,
                   returned |-> _rank_and_deduplicate(results, max_results, min_score)]
    /\ UNCHANGED notRank

\* the caller has taken the ranked list
RankingConsumed ==
    /\ rk_last.op = "rank"
    /\ rk_last' = NoRanking
    /\ UNCHANGED notRank

NextRank ==
    \/ /\ rk_last.op = "none"
       /\ \E results \in SeqsUpTo(RankedEntries, MaxRanked) :
              \E max_results \in 1..MaxRanked :
                  \E min_score \in {<<15, 100>>, <<1, 2>>} :
                      RankAndDeduplicate(results, max_results, min_score)
    \/ RankingConsumed

(***************************************************************************)
(* DataUpdateScheduler (data_collection/scheduler.py).  start() and stop() *)
(* are coroutines of one event loop: each runs without interruption up to  *)
(* its next await, and so does every _run_loop task.  A task is suspended  *)
(* at one of its awaits; Task.cancel() makes that await raise              *)
(* CancelledError when the task is resumed.  CancelledError derives from   *)
(* BaseException (Python 3.8 and later), so "except Exception" lets it by. *)
(***************************************************************************)
\* how many _run_loop tasks, stop() calls, records and passes are followed
MaxLoops == 2
MaxStops == 2
MaxRecords == 3
MaxPasses == 2

Loops == 1..MaxLoops
StopCalls == 1..MaxStops
Records == 1..MaxRecords
NoTask == 0

\* a _run_loop task that create_task() has not made yet
NoLoop ==
    [pc |-> "unborn", must_cancel |-> FALSE, selected |-> <<>>, entry |-> 0,
     attempted |-> {}, failed |-> {}]

\* a _run_loop task that has ended: its frame and its locals are gone
EndedLoop == [NoLoop EXCEPT !.pc = "done"]

NoStop == [pc |-> "unborn", awaits |-> NoTask]

InitSchedVars ==
    /\ sd_running = FALSE
    /\ sd_task = NoTask
    /\ sd_loops = [t \in Loops |-> NoLoop]
    /\ sd_stops = [s \in StopCalls |-> NoStop]
    /\ sd_stale = Records
    /\ sd_entries_updated = 0
    /\ sd_passes = 0
    /\ sd_warned = FALSE

\* start() without its guard
NeverRunning(running) == FALSE

\* start(): "if self._running"
AlreadyRunning(running) == running

\* a loop over the entries with no handler around verify_and_update
CaughtNowhere(exc) == FALSE

\* "except Exception as e" around verify_and_update: what it catches
CaughtPerEntry(exc) == exc = "Exception"

\* a stop() that does not cancel the task
CancelIgnored(loops, t) == loops

\* self._task.cancel(): a task that has finished is left alone, any other
\* gets CancelledError at the await it is suspended at
cancel(loops, t) ==
    IF loops[t].pc = "done" THEN loops
    ELSE [loops EXCEPT ![t].must_cancel = TRUE]

\* the rows of the stale-entries query, in id order
RECURSIVE InIdOrder(_)
InIdOrder(records) ==
    IF records = {} THEN <<>>
    ELSE LET first == CHOOSE r \in records : \A o \in records : r <= o
         IN  <<first>> \o InIdOrder(records \ {first})

\* start(): nothing when already running, else a new _run_loop task
Start ==
    /\ \E t \in Loops : sd_loops[t].pc = "unborn"
    /\ IF AlreadyRunning(sd_running)
       THEN /\ sd_warned' = TRUE
            /\ UNCHANGED <<sd_running, sd_task, sd_loops>>
       ELSE LET t == CHOOSE l \in Loops :
                         /\ sd_loops[l].pc = "unborn"
                         /\ \A o \in Loops : sd_loops[o].pc = "unborn" => l <= o
            IN  /\ sd_running' = TRUE
                /\ sd_task' = t
                /\ sd_loops' = [sd_loops EXCEPT ![t].pc = "created"]
                /\ UNCHANGED sd_warned
    /\ UNCHANGED <<sd_stops, sd_stale, sd_entries_updated, sd_passes>>
    /\ UNCHANGED notSched

\* stop() up to "await self._task": it returns at once when there is no task
\* or the task has finished, else it cancels the task and waits for it
Stop(s) ==
    /\ sd_stops[s].pc = "unborn"
    /\ \A o \in StopCalls : o < s => sd_stops[o].pc # "unborn"
    /\ sd_running' = FALSE
    /\ IF sd_task = NoTask
       THEN /\ sd_stops' = [sd_stops EXCEPT ![s] = [pc |-> "returned", awaits |-> NoTask]]
            /\ UNCHANGED sd_loops
       ELSE /\ sd_loops' = cancel(sd_loops, sd_task)
            /\ sd_stops' = [sd_stops EXCEPT ![s] =
                   [pc |-> IF sd_loops[sd_task].pc = "done" THEN "returned" ELSE "waiting",
                    awaits |-> sd_task]]
    /\ UNCHANGED <<sd_task, sd_stale, sd_entries_updated, sd_passes, sd_warned>>
    /\ UNCHANGED notSched

\* stop() after "await self._task": the task has finished or was cancelled
StopReturns(s) ==
    /\ sd_stops[s].pc = "waiting"
    /\ sd_loops[sd_stops[s].awaits].pc = "done"
    /\ sd_stops' = [sd_stops EXCEPT ![s].pc = "returned"]
    /\ UNCHANGED <<sd_running, sd_task, sd_loops, sd_stale, sd_entries_updated,
                   sd_passes, sd_warned>>
    /\ UNCHANGED notSched

\* "while self._running": leave the loop, or enter
\* _check_and_update_stale_entries, whose query fails (the handler of
\* _run_loop sleeps 60 s) or selects the stale entries and verifies the first
EnterLoop(t, query_fails) ==
    LET loop == sd_loops[t]
        stale_entries == InIdOrder(sd_stale)
    IN  IF ~sd_running
        THEN /\ sd_loops' = [sd_loops EXCEPT ![t] = EndedLoop]
             /\ UNCHANGED sd_passes
        ELSE /\ sd_passes < MaxPasses
             /\ sd_passes' = sd_passes + 1
             /\ sd_loops' = [sd_loops EXCEPT ![t] =
                    IF query_fails
                    THEN [loop EXCEPT !.pc = "retry_sleep", !.selected = <<>>,
                                      !.entry = 0, !.attempted = {}, !.failed = {}]
                    ELSE IF stale_entries = <<>>
                    THEN [loop EXCEPT !.pc = "interval_sleep", !.selected = <<>>,
                                      !.entry = 0, !.attempted = {}, !.failed = {}]
                    ELSE [loop EXCEPT !.pc = "verify", !.selected = stale_entries,
                                      !.entry = 1,
                                      !.attempted = {stale_entries[1]},
                                      !.failed = {}]]

\* the first step of a _run_loop task
LoopStarts(t, query_fails) ==
    /\ sd_loops[t].pc = "created"
    /\ ~sd_loops[t].must_cancel
    /\ EnterLoop(t, query_fails)
    /\ UNCHANGED <<sd_running, sd_task, sd_stops, sd_stale, sd_entries_updated,
                   sd_warned>>
    /\ UNCHANGED notSched

\* "await collector.verify_and_update(entry.id, db)" ends: the record was
\* updated and committed, or left as it was, or the call raised
VerifyReturns(t, outcome) ==
    LET loop == sd_loops[t]
        record == loop.selected[loop.entry]
    IN  /\ loop.pc = "verify"
        /\ ~loop.must_cancel
        /\ IF outcome = "raises"
           THEN /\ sd_loops' = [sd_loops EXCEPT ![t] =
                       IF CaughtPerEntry("Exception")
                       THEN [loop EXCEPT !.pc = "rate_sleep",
                                         !.failed = @ \cup {record}]
                       ELSE [loop EXCEPT !.pc = "retry_sleep"]]
                /\ UNCHANGED <<sd_stale, sd_entries_updated>>
           ELSE /\ sd_loops' = [sd_loops EXCEPT ![t].pc = "rate_sleep"]
                /\ sd_entries_updated' = sd_entries_updated + 1
                /\ sd_stale' = IF outcome = "updated" THEN sd_stale \ {record}
                               ELSE sd_stale
        /\ UNCHANGED <<sd_running, sd_task, sd_stops, sd_passes, sd_warned>>
        /\ UNCHANGED notSched

\* "await asyncio.sleep(1)" ends: the next entry, or the end of the pass and
\* the sleep until the next interval
RateSleepEnds(t) ==
    LET loop == sd_loops[t]
    IN  /\ loop.pc = "rate_sleep"
        /\ ~loop.must_cancel
        /\ sd_loops' = [sd_loops EXCEPT ![t] =
               IF loop.entry < Len(loop.selected)
               THEN [loop EXCEPT !.pc = "verify", !.entry = @ + 1,
                                 !.attempted = @ \cup {loop.selected[loop.entry + 1]}]
               ELSE [loop EXCEPT !.pc = "interval_sleep"]]
        /\ UNCHANGED <<sd_running, sd_task, sd_stops, sd_stale, sd_entries_updated,
                       sd_passes, sd_warned>>
        /\ UNCHANGED notSched

\* "await asyncio.sleep(interval_hours * 3600)" ends
IntervalSleepEnds(t, query_fails) ==
    /\ sd_loops[t].pc = "interval_sleep"
    /\ ~sd_loops[t].must_cancel
    /\ EnterLoop(t, query_fails)
    /\ UNCHANGED <<sd_running, sd_task, sd_stops, sd_stale, sd_entries_updated,
                   sd_warned>>
    /\ UNCHANGED notSched

\* "await asyncio.sleep(60)" of the handler of _run_loop ends
RetrySleepEnds(t, query_fails) ==
    /\ sd_loops[t].pc = "retry_sleep"
    /\ ~sd_loops[t].must_cancel
    /\ EnterLoop(t, query_fails)
    /\ UNCHANGED <<sd_running, sd_task, sd_stops, sd_stale, sd_entries_updated,
                   sd_warned>>
    /\ UNCHANGED notSched

\* a cancelled task is resumed: its await raises CancelledError.  Around
\* verify_and_update the per-entry handler is asked first; everywhere else,
\* and when that handler lets it by, the task ends ("except
\* asyncio.CancelledError: break", or the error leaves the coroutine)
CancelledErrorRaised(t) ==
    LET loop == sd_loops[t]
    IN  /\ loop.must_cancel
        /\ loop.pc \notin {"unborn", "done"}
        /\ sd_loops' = [sd_loops EXCEPT ![t] =
               IF loop.pc = "verify" /\ CaughtPerEntry("CancelledError")
               THEN [loop EXCEPT !.pc = "rate_sleep", !.must_cancel = FALSE,
                                 !.failed = @ \cup {loop.selected[loop.entry]}]
               ELSE EndedLoop]
        /\ UNCHANGED <<sd_running, sd_task, sd_stops, sd_stale, sd_entries_updated,
                       sd_passes, sd_warned>>
        /\ UNCHANGED notSched

\* time passes: a verified record is older than the threshold again
RecordGoesStale(r) ==
    /\ r \notin sd_stale
    /\ sd_stale' = sd_stale \cup {r}
    /\ UNCHANGED <<sd_running, sd_task, sd_loops, sd_stops, sd_entries_updated,
                   sd_passes, sd_warned>>
    /\ UNCHANGED notSched

NextScheduler ==
    \/ Start
    \/ \E s \in StopCalls : Stop(s)
    \/ \E s \in StopCalls : StopReturns(s)
    \/ \E t \in Loops : \E query_fails \in BOOLEAN : LoopStarts(t, query_fails)
    \/ \E t \in Loops : \E outcome \in {"updated", "unchanged", "raises"} :
           VerifyReturns(t, outcome)
    \/ \E t \in Loops : RateSleepEnds(t)
    \/ \E t \in Loops : \E query_fails \in BOOLEAN : IntervalSleepEnds(t, query_fails)
    \/ \E t \in Loops : \E query_fails \in BOOLEAN : RetrySleepEnds(t, query_fails)
    \/ \E t \in Loops : CancelledErrorRaised(t)
    \/ \E r \in Records : RecordGoesStale(r)

(***************************************************************************)
(* A search request from the route to the merge: ai_search / quick_search  *)
(* (api/routes.py), AISearchEngine._execute_search, collect_for_query and  *)
(* _process_and_store (collector.py) on the Session of get_db.  The        *)
(* requests are coroutines of one event loop: a request gives way only at  *)
(* an await, and _process_and_store has none, so its loop and its commit   *)
(* run with no other request in between.  Session follows SQLAlchemy: a    *)
(* flush that fails rolls the transaction back and leaves the Session      *)
(* unusable until rollback() (every later query and commit raises).        *)
(***************************************************************************)
\* how many requests are followed, how many at a time, how long a batch is,
\* and how many candidates all batches hold together
MaxSearches == 2
MaxCalls == 2
MaxBatch == 3
MaxMerged == 4

Calls == 1..MaxCalls

\* max_results of a request (SearchRequest and quick_search default)
max_results == 10

EmptyTitle == <<>>

\* the candidates search_all hands to the merge: two well-formed titles, a
\* title that is empty, a title that is None (a JSON null under the key, as
\* in doc.get('title', 'Unknown')), and a candidate without a content type
MergedWorks ==
    { [title |-> tHamlet, content_type |-> "book", confidence |-> 70],
      [title |-> tHamlets, content_type |-> "book", confidence |-> 70],
      [title |-> EmptyTitle, content_type |-> "book", confidence |-> 70],
      [title |-> EmptyTitle, content_type |-> "book", confidence |-> 90],
      [title |-> NoneText, content_type |-> "book", confidence |-> 70],
      [title |-> tHamlet, content_type |-> NoneStr, confidence |-> 70] }

\* normalize_title(work.title), evaluated once for the titles that occur:
\* "if not title: return ''" covers None and the empty title
MergedNormalizedRows ==
    {<<title, IF title = NoneText \/ title = EmptyTitle THEN <<>>
              ELSE normalize_title(title)>> :
         title \in {w.title : w \in MergedWorks}}

MergedNormalized == DictOf(MergedNormalizedRows)

\* the query of the requests, normalized
search_query == Lower(normalize_title(tHamlet))

\* the normalized titles the "contains" strategies of _search_database match
MatchingNormalized ==
    {row[2] : row \in {r \in MergedNormalizedRows : Contains(r[2], search_query)}}

\* _search_database: the rows of the type asked for whose normalized title
\* contains the query
_search_database(rows, content_type) ==
    {i \in DOMAIN rows :
        /\ content_type # NoneStr => rows[i].content_type = content_type
        /\ rows[i].title_normalized \in MatchingNormalized}

\* title = Column(String(500), nullable=False): the insert that violates it
NotNullViolated(work) == work.title = NoneText

\* the duplicate lookup of _process_and_store
MergeExisting(rows, work) ==
    {i \in DOMAIN rows :
        /\ rows[i].title_normalized = MergedNormalized[work.title]
        /\ rows[i].content_type = work.content_type}

\* the row _process_and_store adds for a candidate that was not found
MergedRow(work) ==
    [title |-> work.title,
     title_normalized |-> MergedNormalized[work.title],
     content_type |-> IF work.content_type # NoneStr THEN work.content_type
                      ELSE "unknown",
     data_confidence |-> work.confidence]

NoSession == [rows |-> <<>>, inactive |-> FALSE]

NoCallYet ==
    [pc |-> "idle", content_type |-> NoneStr, db_results |-> 0, batch |-> <<>>,
     absent |-> {}, before |-> <<>>, after |-> <<>>, commit_failed |-> FALSE,
     outcome |-> "none"]

InitMergeVars ==
    /\ ig_rows = <<>>
    /\ ig_session = NoSession
    /\ ig_calls = [c \in Calls |-> NoCallYet]
    /\ ig_count = 0
    /\ ig_merged = 0

\* the route calls search: _search_database runs, and with fewer local
\* results than max_results collect_for_query awaits search_all
ExecuteSearchBegins(c, content_type) ==
    LET db_results == _search_database(ig_rows, content_type)
    IN  /\ ig_calls[c].pc = "idle"
        /\ \A o \in Calls : ig_calls[o].pc # "storing"
        /\ ig_count < MaxSearches
        /\ ig_count' = ig_count + 1
        /\ ig_calls' = [ig_calls EXCEPT ![c] =
               [NoCallYet EXCEPT
                    !.pc = IF Cardinality(db_results) < max_results
                           THEN "scraping" ELSE "done",
                    !.content_type = content_type,
                    !.db_results = Cardinality(db_results),
                    !.before = ig_rows,
                    !.outcome = IF Cardinality(db_results) < max_results
                                THEN "none" ELSE "results"]]
        /\ UNCHANGED <<ig_rows, ig_session, ig_merged>>
        /\ UNCHANGED notMerge

\* search_all found nothing: collect_for_query returns [] and the request
\* answers with its local results
SearchAllReturnsNothing(c) ==
    /\ ig_calls[c].pc = "scraping"
    /\ \A o \in Calls : ig_calls[o].pc # "storing"
    /\ ig_calls' = [ig_calls EXCEPT ![c].pc = "done", ![c].outcome = "results"]
    /\ UNCHANGED <<ig_rows, ig_session, ig_count, ig_merged>>
    /\ UNCHANGED notMerge

\* search_all returned candidates: _process_and_store is entered
MergeBegins(c) ==
    /\ ig_calls[c].pc = "scraping"
    /\ \A o \in Calls : ig_calls[o].pc # "storing"
    /\ ig_calls' = [ig_calls EXCEPT ![c].pc = "storing", ![c].before = ig_rows]
    /\ ig_session' = [rows |-> ig_rows, inactive |-> FALSE]
    /\ UNCHANGED <<ig_rows, ig_count, ig_merged>>
    /\ UNCHANGED notMerge

\* one iteration of the loop of _process_and_store.  On an unusable Session
\* the lookup raises and the handler goes on to the next candidate; a found
\* row is updated when the candidate is more confident; a new row is added
\* and flushed, and the flush of a row without title fails
MergeCandidate(c, work) ==
    LET call == ig_calls[c]
        existing == MergeExisting(ig_session.rows, work)
        first == CHOOSE i \in existing : \A o \in existing : i <= o
    IN  /\ call.pc = "storing"
        /\ Len(call.batch) < MaxBatch
        /\ ig_merged < MaxMerged
        /\ ig_merged' = ig_merged + 1
        /\ ig_calls' = [ig_calls EXCEPT
               ![c].batch = Append(@, work),
               ![c].absent =
                   IF ~ig_session.inactive /\ existing = {}
                   THEN @ \cup {<<MergedNormalized[work.title], work.content_type>>}
                   ELSE @]
        /\ ig_session' =
               IF ig_session.inactive THEN ig_session
               ELSE IF existing # {}
               THEN IF work.confidence > ig_session.rows[first].data_confidence
                    THEN [ig_session EXCEPT
                              !.rows[first].data_confidence = work.confidence]
                    ELSE ig_session
               ELSE IF NotNullViolated(work)
               THEN [rows |-> call.before, inactive |-> TRUE]
               ELSE [ig_session EXCEPT !.rows = Append(@, MergedRow(work))]
        /\ UNCHANGED <<ig_rows, ig_count>>
        /\ UNCHANGED notMerge

\* db.commit() at the end of _process_and_store.  It raises on an unusable
\* Session and when the database refuses the commit; the error leaves
\* collect_for_query ("raise"), _execute_search and search, the route
\* answers 500, and closing the Session of get_db drops what was not
\* committed.  Otherwise the rows are committed and the request answers
MergeCommits(c, commit_fails) ==
    LET call == ig_calls[c]
        raised == ig_session.inactive \/ commit_fails
    IN  /\ call.pc = "storing"
        /\ call.batch # <<>>
        /\ ig_rows' = IF raised THEN ig_rows ELSE ig_session.rows
        /\ ig_session' = NoSession
        /\ ig_calls' = [ig_calls EXCEPT
               ![c].pc = "done",
               ![c].commit_failed = commit_fails,
               ![c].after = IF raised THEN ig_rows ELSE ig_session.rows,
               ![c].outcome = IF raised THEN "error" ELSE "results"]
        /\ UNCHANGED <<ig_count, ig_merged>>
        /\ UNCHANGED notMerge

\* the response has gone out
ResponseSent(c) ==
    /\ ig_calls[c].pc = "done"
    /\ ig_calls' = [ig_calls EXCEPT ![c] = NoCallYet]
    /\ UNCHANGED <<ig_rows, ig_session, ig_count, ig_merged>>
    /\ UNCHANGED notMerge

NextMerge ==
    \/ \E c \in Calls : \E content_type \in {"book", NoneStr} :
           ExecuteSearchBegins(c, content_type)
    \/ \E c \in Calls : SearchAllReturnsNothing(c)
    \/ \E c \in Calls : MergeBegins(c)
    \/ \E c \in Calls : \E work \in MergedWorks : MergeCandidate(c, work)
    \/ \E c \in Calls : \E commit_fails \in BOOLEAN : MergeCommits(c, commit_fails)
    \/ \E c \in Calls : ResponseSent(c)

(***************************************************************************)
(* The three routes that call AISearchEngine.search (api/routes.py) and    *)
(* the validation of their query (schemas.py, Query(...)).  A query is     *)
(* followed by its length in characters, which is all the validators read. *)
(***************************************************************************)
\* max_length of SearchRequest.query and of q
MaxQueryLength == 500

\* lengths on both sides of the two limits
QueryLengths ==
    {0, 1, 2, MaxQueryLength - 1, MaxQueryLength, MaxQueryLength + 1,
     MaxQueryLength + 2}

EntryPoints == {"POST /search", "GET /search", "POST /tag"}

\* how many local results _search_database can come back with
MaxLocal == 2

\* SearchRequest.query: Field(..., min_length=1, max_length=500)
SearchRequestValid(length) == length >= 1 /\ length <= MaxQueryLength

\* quick_search: q: str = Query(..., min_length=1, max_length=500)
QuickSearchValid(length) == length >= 1 /\ length <= MaxQueryLength

\* SmartTagRequest.query: Field(..., description=...)
SmartTagRequestValid(length) == TRUE

QueryValid(entry_point, length) ==
    CASE entry_point = "POST /search" -> SearchRequestValid(length)
      [] entry_point = "GET /search" -> QuickSearchValid(length)
      [] entry_point = "POST /tag" -> SmartTagRequestValid(length)

\* the max_results an entry point hands to search
MaxResultsOf(entry_point, asked) ==
    IF entry_point = "POST /tag" THEN 1 ELSE asked

\* the include_web_results an entry point hands to search
IncludeWebOf(entry_point, include_similar) ==
    IF entry_point = "POST /search" THEN include_similar ELSE TRUE

NoRequest ==
    [op |-> "none", entry_point |-> "POST /search", length |-> 1, max_results |-> 1,
     include_web_results |-> FALSE, local |-> 0, rejected |-> FALSE,
     spell_corrected |-> FALSE, store_read |-> FALSE, adapters_called |-> FALSE]

InitRequestVars == rq_last = NoRequest

\* a request: refused by the validation of its entry point (422, the route
\* body never runs), or handed to search, which corrects the spelling,
\* searches the store and, with fewer local results than max_results,
\* collects from the adapters
Request(entry_point, length, asked, include_similar, local) ==
    LET max_results_given == MaxResultsOf(entry_point, asked)
        include_web_results == IncludeWebOf(entry_point, include_similar)
    IN  /\ rq_last' =
               IF ~QueryValid(entry_point, length)
               THEN [NoRequest EXCEPT !.op = "request", !.entry_point = entry_point,
                                      !.length = length, !.rejected = TRUE]
               ELSE [op |-> "request", entry_point |-> entry_point, length |-> length,
                     max_results |-> max_results_given,
                     include_web_results |-> include_web_results,
                     local |-> local, rejected |-> FALSE,
                     spell_corrected |-> TRUE, store_read |-> TRUE,
                     adapters_called |-> include_web_results /\ local < max_results_given]
        /\ UNCHANGED notRequest

NextRequest ==
    \E entry_point \in EntryPoints : \E length \in QueryLengths :
        \E asked \in {1, 10, 50} : \E include_similar \in BOOLEAN :
            \E local \in 0..MaxLocal :
                Request(entry_point, length, asked, include_similar, local)

(***************************************************************************)
(* submit_search_feedback (api/routes.py) with                             *)
(* AISearchEngine.learn_from_selection and provide_feedback                *)
(* (ai_search/search_engine.py), on the spell corrector and on search_logs *)
(***************************************************************************)
\* how many searches are logged
MaxLogs == 2

\* the rating of a feedback event that carries one
FiveStars == 5

\* what the logged searches asked for
LoggedQueries == {qStarTrec, qStartrek}

\* work_metadata as the feedback route sees it: id -> title
FeedbackWorks == <<tStarTrek, tTrek>>

\* the ids a feedback event can name: those of the rows, and one beyond
SearchIds == 1..(MaxLogs + 1)

SelectedIds == 1..(Len(FeedbackWorks) + 1)

NoFeedback ==
    [op |-> "none", search_id |-> 0, selected_result_id |-> 0,
     was_correct |-> FALSE, log |-> FALSE, work |-> FALSE,
     before |-> <<>>, logs_before |-> <<>>]

InitFeedbackVars ==
    /\ fb_last = NoFeedback
    /\ fb_logs = <<>>

\* the rows learn_from_selection can pick: those of the query text with the
\* latest timestamp (order_by(timestamp.desc()).first(); the order among
\* equal timestamps is the database's)
MostRecentLogs(logs, query) ==
    {i \in 1..Len(logs) :
        /\ logs[i].query_text = query
        /\ \A j \in 1..Len(logs) :
               logs[j].query_text = query => logs[j].timestamp <= logs[i].timestamp}

\* provide_feedback: the row of id search_id gets the rating and was_correct
provide_feedback(logs, search_id, rating, was_correct) ==
    IF search_id \in 1..Len(logs)
    THEN [logs EXCEPT ![search_id].feedback_score = rating,
                      ![search_id].was_successful = was_correct]
    ELSE logs

\* POST /search/feedback.  With the search log found, learn_from_selection
\* is called with its query and the selected id; with the work found it
\* calls learn_from_search(query, work.title) and writes the selected id to
\* the most recent log row of that query text.  was_correct is read only
\* afterwards, by provide_feedback and for the training queue
submit_search_feedback(search_id, selected_result_id, rating, was_correct) ==
    LET log == search_id \in 1..Len(fb_logs)
        work == selected_result_id \in 1..Len(FeedbackWorks)
    IN  /\ co_calls < MaxLearned
        /\ co_calls' = co_calls + 1
        /\ fb_last' = [op |-> "feedback", search_id |-> search_id,
                       selected_result_id |-> selected_result_id,
                       was_correct |-> was_correct, log |-> log, work |-> work,
                       before |-> learned_corrections, logs_before |-> fb_logs]
        /\ IF log /\ work
           THEN LET query_text == fb_logs[search_id].query_text
                    title == FeedbackWorks[selected_result_id]
                IN  /\ learned_corrections' = LearnedAfter(query_text, title)
                    /\ known_titles' = known_titles \cup {LowerStrip(title)}
                    /\ word_freq' = CountWords(word_freq, Split(LowerStrip(title)), 0)
                    /\ co_last' = [op |-> "learn", text |-> query_text,
                                   title |-> title, result |-> <<<<>>, FALSE>>]
                    /\ \E recent_log \in MostRecentLogs(fb_logs, query_text) :
                           fb_logs' = provide_feedback(
                               [fb_logs EXCEPT ![recent_log].user_selected_id =
                                                   selected_result_id],
                               search_id, IF rating = NoneInt THEN 0 ELSE rating,
                               was_correct)
           ELSE /\ fb_logs' = provide_feedback(
                       fb_logs, search_id, IF rating = NoneInt THEN 0 ELSE rating,
                       was_correct)
                /\ UNCHANGED <<learned_corrections, known_titles, word_freq, co_last>>
        /\ UNCHANGED notCorrectorFeedback

\* a search: spell_corrector.correct(query), later get_suggestions(query),
\* which calls correct again; neither writes to the corrector.  The search
\* ends with _log_search, which adds a row to search_logs; tick is whether
\* the clock has advanced since the row before
SearchCorrects(text, result_count, tick) ==
    /\ Len(fb_logs) < MaxLogs
    /\ \E result \in correct(text) :
           co_last' = [op |-> "correct", text |-> text, title |-> <<>>,
                       result |-> result]
    /\ fb_logs' = Append(fb_logs,
           [query_text |-> text,
            timestamp |-> (IF fb_logs = <<>> THEN 0
                           ELSE fb_logs[Len(fb_logs)].timestamp) + tick,
            user_selected_id |-> NoneInt,
            feedback_score |-> NoneInt,
            was_successful |-> result_count > 0])
    /\ UNCHANGED <<learned_corrections, word_freq, known_titles, co_calls,
                   fb_last, notCorrectorFeedback>>

NextFeedback ==
    \/ \E search_id \in SearchIds : \E selected_result_id \in SelectedIds :
           \E rating \in {NoneInt, FiveStars} : \E was_correct \in BOOLEAN :
               submit_search_feedback(search_id, selected_result_id, rating,
                                      was_correct)
    \/ \E text \in LoggedQueries : \E result_count \in 0..1 : \E tick \in 0..1 :
           SearchCorrects(text, result_count, tick)

(***************************************************************************)
(* utils.normalize_title, called on arbitrary text                         *)
(***************************************************************************)
\* how long a text handed to normalize_title is
MaxTitleLen == 3

\* the characters of those texts: a cased letter of each case, the two kinds
\* of whitespace, a character the pattern removes, one it keeps, and an
\* accented letter in its precomposed and its decomposed form
TitleChars == {"A", "b", " ", "\t", "!", "-", EAcute, CombiningAcute}

NormalizeInputs == SeqsUpTo(TitleChars, MaxTitleLen)

NoNormalize == [op |-> "none", title |-> <<>>, returned |-> <<>>]

InitNormalizeVars == nt_last = NoNormalize

NormalizeTitle(title) ==
    /\ nt_last.op = "none"
    /\ nt_last' = [op |-> "normalize", title |-> title,
                   returned |-> normalize_title(title)]
    /\ UNCHANGED notNormalize

\* the caller takes the normalized text
NormalizeConsumed ==
    /\ nt_last.op = "normalize"
    /\ nt_last' = NoNormalize
    /\ UNCHANGED notNormalize

NextNormalize ==
    \/ \E title \in NormalizeInputs : NormalizeTitle(title)
    \/ NormalizeConsumed

(***************************************************************************)
(* The corrector on texts whose words are keys of its tables               *)
(***************************************************************************)
qSw == <<"s", "w">>

qSwX == <<"s", "w", " ", "x">>

qBeatles == <<"b", "e", "a", "t", "l", "e", "s">>

qBeatlesX == <<"b", "e", "a", "t", "l", "e", "s", " ", "x">>

tBeatles == <<"B", "e", "a", "t", "l", "e", "s">>

tTree == <<"t", "r", "e", "e">>

qTrec == <<"t", "r", "e", "c">>

\* queries and selected titles the corrector learns from
WordQueries == {qSw, qBeatles}

WordTitles == {tBeatles, tTrek, tTree}

\* texts corrected afterwards: a curated key, texts that hold a curated key
\* or a learned key as one of their words, and a word one edit away from
\* two of the titles
WordTexts == {qBeatles, qBeatlesX, qSwX, qTrec}

NextWords ==
    \/ \E query \in WordQueries : \E selected_title \in WordTitles :
           learn_from_search(query, selected_title)
    \/ \E title \in WordTitles : add_known_titles(title)
    \/ \E text \in WordTexts : Correct(text)

(***************************************************************************)
(* DataCollector.collect_for_query and get_status on the one collector     *)
(* get_collector() hands to every caller.  collect_for_query is a          *)
(* coroutine: it runs up to `await self.scraper.search_all(...)`, where    *)
(* other coroutines of the event loop run, and from the return of          *)
(* search_all to its end without another suspension (_process_and_store    *)
(* awaits nothing).                                                        *)
(***************************************************************************)
\* how many collect_for_query calls are explored
MaxCollects == 3

Collects == 1..MaxCollects

\* how many records one call can store
MaxStored == 2

InitCollectorVars ==
    /\ cl_is_running = FALSE
    /\ cl_last_run = FALSE
    /\ cl_total_collected = 0
    /\ cl_calls = [c \in Collects |-> "unborn"]
    /\ cl_status = [op |-> "none", is_running |-> FALSE, last_run |-> FALSE,
                    total_collected |-> 0, in_flight |-> 0]

\* the collect_for_query calls that have begun and not ended
InFlight == {c \in Collects : cl_calls[c] = "search_all"}

\* collect_for_query up to `await self.scraper.search_all(query, content_type)`
CollectForQueryBegins(c) ==
    /\ cl_calls[c] = "unborn"
    /\ cl_is_running' = TRUE
    /\ cl_calls' = [cl_calls EXCEPT ![c] = "search_all"]
    /\ UNCHANGED <<cl_last_run, cl_total_collected, cl_status, notCollector>>

\* search_all has returned or raised: the rest of collect_for_query with its
\* finally block.  outcome "nothing" is the early `return []`, "stored" the
\* merge of stored records, "raised" an exception that is logged and re-raised
CollectForQueryEnds(c, outcome, stored) ==
    /\ cl_calls[c] = "search_all"
    /\ cl_total_collected' =
           IF outcome = "stored" THEN cl_total_collected + stored
           ELSE cl_total_collected
    /\ cl_is_running' = FALSE
    /\ cl_last_run' = TRUE
    /\ cl_calls' = [cl_calls EXCEPT ![c] = IF outcome = "raised" THEN "raised"
                                           ELSE "returned"]
    /\ UNCHANGED <<cl_status, notCollector>>

get_status ==
    /\ cl_status' = [op |-> "status", is_running |-> cl_is_running,
                     last_run |-> cl_last_run,
                     total_collected |-> cl_total_collected,
                     in_flight |-> Cardinality(InFlight)]
    /\ UNCHANGED <<cl_is_running, cl_last_run, cl_total_collected, cl_calls,
                   notCollector>>

NextCollector ==
    \/ \E c \in Collects : CollectForQueryBegins(c)
    \/ \E c \in Collects : \E outcome \in {"nothing", "stored", "raised"} :
           \E stored \in 0..MaxStored : CollectForQueryEnds(c, outcome, stored)
    \/ get_status

(***************************************************************************)
(* _check_and_update_stale_entries, pass after pass, in a scheduler that   *)
(* was started and is not stopped, over a store that holds more stale      *)
(* records than the query's limit.  The database answers every query.  The *)
(* query has no ORDER BY: the rows come in the order of the table scan, by *)
(* id, the same in every pass.                                             *)
(***************************************************************************)
\* the records of the store, and the limit of the stale-entries query
\* (.limit(50)), scaled down together
MaxRefreshRecords == 3

StaleBatchLimit == 2

RefreshRecords == 1..MaxRefreshRecords

InitRefreshVars ==
    /\ rf_pc = "interval_sleep"
    /\ rf_stale = RefreshRecords
    /\ rf_entries = <<>>
    /\ rf_entry = 0
    /\ rf_verified = {}

\* db.query(WorkMetadata).filter(...).limit(50).all()
StaleEntries(stale) ==
    LET rows == InIdOrder(stale)
    IN  SubSeq(rows, 1, Min2(StaleBatchLimit, Len(rows)))

\* the interval sleep ends (or the task starts): the pass selects its batch
\* and calls verify_and_update on the first entry
PassBegins ==
    /\ rf_pc = "interval_sleep"
    /\ rf_entries' = StaleEntries(rf_stale)
    /\ IF StaleEntries(rf_stale) = <<>>
       THEN /\ rf_entry' = 0
            /\ UNCHANGED <<rf_pc, rf_verified>>
       ELSE /\ rf_entry' = 1
            /\ rf_pc' = "verify"
            /\ rf_verified' = rf_verified \cup {StaleEntries(rf_stale)[1]}
    /\ UNCHANGED <<rf_stale, notRefresh>>

\* verify_and_update returns: with a match above 0.8 the record is updated
\* and last_verified_at is set; with no such match, or when the call raised,
\* last_verified_at stays as it was
VerifyAndUpdateEnds(outcome) ==
    /\ rf_pc = "verify"
    /\ rf_pc' = "rate_sleep"
    /\ rf_stale' = IF outcome = "updated" THEN rf_stale \ {rf_entries[rf_entry]}
                   ELSE rf_stale
    /\ UNCHANGED <<rf_entries, rf_entry, rf_verified, notRefresh>>

\* "await asyncio.sleep(1)" ends: the next entry, or the end of the pass
NextEntry ==
    /\ rf_pc = "rate_sleep"
    /\ IF rf_entry < Len(rf_entries)
       THEN /\ rf_pc' = "verify"
            /\ rf_entry' = rf_entry + 1
            /\ rf_verified' = rf_verified \cup {rf_entries[rf_entry + 1]}
            /\ UNCHANGED rf_entries
       ELSE /\ rf_pc' = "interval_sleep"
            /\ rf_entries' = <<>>
            /\ rf_entry' = 0
            /\ UNCHANGED rf_verified
    /\ UNCHANGED <<rf_stale, notRefresh>>

\* time passes: a verified record is older than the threshold again
RecordAges(r) ==
    /\ r \notin rf_stale
    /\ rf_stale' = rf_stale \cup {r}
    /\ UNCHANGED <<rf_pc, rf_entries, rf_entry, rf_verified, notRefresh>>

NextRefresh ==
    \/ PassBegins
    \/ \E outcome \in {"updated", "unchanged", "raises"} : VerifyAndUpdateEnds(outcome)
    \/ NextEntry
    \/ \E r \in RefreshRecords : RecordAges(r)

(***************************************************************************)
(* Specifications                                                          *)
(***************************************************************************)
Init == InitStoreVars /\ InitScrapeVars /\ InitCorrectorVars /\ InitScoreVars /\ InitRankVars /\ InitSchedVars /\ InitMergeVars /\ InitRequestVars /\ InitFeedbackVars /\ InitNormalizeVars /\ InitCollectorVars /\ InitRefreshVars

\* the merger alone
SpecIngest == Init /\ [][NextIngest]_vars

\* the merger and the refresh path
SpecStore == Init /\ [][NextStore]_vars

\* search_all with its adapters
SpecScrape == Init /\ [][NextScrape]_vars

\* the spell corrector
SpecCorrector == Init /\ [][NextCorrector]_vars

\* the relevance scorer
SpecScore == Init /\ [][NextScore]_vars

\* the ranker
SpecRank == Init /\ [][NextRank]_vars

SpecScheduler == Init /\ [][NextScheduler]_vars

\* the scheduler on a running event loop: a task that was cancelled is
\* resumed, and so is a stop() whose awaited task has finished
SpecSchedulerLive ==
    /\ Init
    /\ [][NextScheduler]_vars
    /\ \A t \in Loops : WF_vars(CancelledErrorRaised(t))
    /\ \A s \in StopCalls : WF_vars(StopReturns(s))

SpecMerge == Init /\ [][NextMerge]_vars

SpecRequest == Init /\ [][NextRequest]_vars

SpecFeedback == Init /\ [][NextFeedback]_vars

\* normalize_title on arbitrary text
SpecNormalize == Init /\ [][NextNormalize]_vars

\* the corrector on texts whose words are keys of its tables
SpecWords == Init /\ [][NextWords]_vars

\* concurrent collect_for_query calls on the shared collector
SpecCollector == Init /\ [][NextCollector]_vars

\* the refresh loop on a running event loop: every sleep ends, and every
\* verify_and_update call returns or raises (its network calls time out)
SpecRefreshLive ==
    /\ Init
    /\ [][NextRefresh]_vars
    /\ WF_vars(PassBegins)
    /\ WF_vars(\E outcome \in {"updated", "unchanged", "raises"} :
                   VerifyAndUpdateEnds(outcome))
    /\ WF_vars(NextEntry)

\* search_all under the scheduling the event loop gives: a ready task runs,
\* an armed timer fires, a completed gather resumes its caller.  Upstreams
\* owe nothing: no fairness on UpstreamAnswers.
SpecScrapeLive ==
    /\ Init
    /\ [][NextScrapeLive]_vars
    /\ \A a \in Adapters : WF_vars(AdapterSends(a))
    /\ \A a \in Adapters : WF_vars(CallTimesOut(a))
    /\ WF_vars(GatherReturns)

(***************************************************************************)
(* Properties of search_all                                                *)
(***************************************************************************)
\* adapter a failed: its search raised, or none of its network calls got a
\* usable response
Failed(a) ==
    \/ sc_tasks[a].pc = "raised"
    \/ ~sc_tasks[a].ok /\ ~ReturnsAtOnce(a, sc_type)

\* candidate r is in the list search_all returned
Returned(r) == \E k \in DOMAIN sc_out.results : sc_out.results[k] = r

\* the candidates of adapter a in the list search_all returned
ReturnedFrom(a) == { k \in DOMAIN sc_out.results : sc_out.results[k].source = a }

EquivalenceGroup(content_type) ==
    (IF content_type \in DOMAIN type_groups THEN type_groups[content_type] ELSE {})
        \cup {content_type}

\* C6: every candidate search_all(query, type) returns has a content type in
\* the equivalence group of the requested type; a candidate outside it, or
\* without a content type, is not returned.
C6_ReturnedTypesAreInTheGroup ==
    sc_pc = "returned" =>
        \A k \in DOMAIN sc_out.results :
            /\ sc_out.results[k].content_type \in EquivalenceGroup(sc_type)
            /\ sc_out.results[k].content_type # NoneStr

\* C6 happens: an adapter handed back a candidate outside the group, and the
\* list returned holds a candidate of the requested type and one of another
\* type of its group
C6_Witness ==
    /\ sc_pc = "returned"
    /\ \E a \in Selected(sc_type) : \E k \in DOMAIN sc_tasks[a].results :
          sc_tasks[a].results[k].content_type \notin EquivalenceGroup(sc_type)
    /\ \E k \in DOMAIN sc_out.results : sc_out.results[k].content_type = sc_type
    /\ \E k \in DOMAIN sc_out.results : sc_out.results[k].content_type # sc_type

Learned == co_last.op = "learn"

\* C7 as stated: for every query q and title t with normalize(q) # normalize(t),
\* after learn_from_search(q, t) the call correct(q) returns
\* (normalize(t), true).  The code breaks it for an empty q, for a q that is
\* a key of the curated table, and for a t whose punctuation normalize drops.
C7_LearnedQueryGivesNormalizedTitle ==
    (Learned /\ normalize_title(co_last.text) # normalize_title(co_last.title))
        => correct(co_last.text) = {<<normalize_title(co_last.title), TRUE>>}

\* C7, amended: for every non-empty query q whose lowercased and trimmed
\* form is not a key of the curated table and differs from the lowercased
\* and trimmed title t, after learn_from_search(q, t) the call correct(q)
\* returns (t lowercased and trimmed, true).
C7_LearnedQueryGivesLearnedTitle ==
    (/\ Learned
     /\ co_last.text # <<>>
     /\ LowerStrip(co_last.text) \notin DOMAIN known_corrections
     /\ LowerStrip(co_last.text) # LowerStrip(co_last.title))
        => correct(co_last.text) = {<<LowerStrip(co_last.title), TRUE>>}

\* a learned query that was already a known title is still corrected, to a
\* title that normalize would have changed
C7_Witness ==
    /\ Learned
    /\ co_last.text # <<>>
    /\ LowerStrip(co_last.text) \notin DOMAIN known_corrections
    /\ LowerStrip(co_last.text) # LowerStrip(co_last.title)
    /\ LowerStrip(co_last.text) \in known_titles
    /\ LowerStrip(co_last.title) # normalize_title(co_last.title)
    /\ <<LowerStrip(co_last.title), TRUE>> \in correct(co_last.text)

Corrected == co_last.op = "correct" /\ co_last.text # <<>>

\* C9: correct consults its exact-match sources in a fixed order.  An input
\* that is a key of the curated table gets the curated value with
\* wasCorrected = true, whatever was learned and whatever titles are known;
\* otherwise a learned entry wins over known-title status; an input that is
\* a known title with no curated or learned entry comes back unchanged with
\* wasCorrected = false.
C9_CuratedThenLearnedThenKnownTitle ==
    Corrected =>
        LET original == LowerStrip(co_last.text)
        IN  IF original \in DOMAIN known_corrections
            THEN co_last.result = <<known_corrections[original], TRUE>>
            ELSE IF original \in DOMAIN learned_corrections
            THEN co_last.result = <<learned_corrections[original], TRUE>>
            ELSE original \in known_titles
                     => co_last.result = <<co_last.text, FALSE>>

\* a curated key that also has a learned entry for another title and is a
\* known title: the curated value is returned
C9_Witness ==
    /\ Corrected
    /\ LowerStrip(co_last.text) \in DOMAIN known_corrections
    /\ LowerStrip(co_last.text) \in DOMAIN learned_corrections
    /\ learned_corrections[LowerStrip(co_last.text)]
           # known_corrections[LowerStrip(co_last.text)]
    /\ co_last.result = <<known_corrections[LowerStrip(co_last.text)], TRUE>>

(***************************************************************************)
(* Properties of the relevance scorer                                      *)
(***************************************************************************)
\* C10: the relevance score returned by _calculate_relevance_score lies in
\* [0, 1], whatever the fuzzy and embedding-similarity signals.  The code
\* caps the sum at 1 and has no floor, so a negative cosine similarity
\* gives a negative score.
C10_ScoreInUnitInterval ==
    sr_last.op = "score" => FLe(FZero, sr_last.score) /\ FLe(sr_last.score, FOne)

\* for each query and title: how many words the query has, the share of
\* them found in the title, and overlapRatio * 0.7 plus the bigram-contiguity
\* bonus
OverlapFacts ==
    {<<pair,
       LET words == Split(Lower(normalize_title(pair[1])))
           title == Lower(normalize_title(
                        IF pair[2] = NoneText THEN <<>> ELSE pair[2]))
           n == Len(words)
           found == {i \in 1..n : Contains(title, words[i])}
           bigrams == {i \in 1..(n - 1) :
                          Contains(title, words[i] \o <<" ">> \o words[i + 1])}
       IN  [words |-> n,
            ratio |-> Frac(Cardinality(found), n),
            unpenalized |->
                FAdd(FMul(Frac(Cardinality(found), n), <<7, 10>>),
                     IF bigrams = {} THEN FZero
                     ELSE FMul(<<3, 10>>, Frac(Cardinality(bigrams), n - 1)))]>> :
         pair \in ScoredQueries \X {work.title : work \in ScoredWorks}}

LastFacts ==
    (CHOOSE row \in OverlapFacts : row[1] = <<sr_last.query, sr_last.title>>)[2]

LowOverlap ==
    /\ sr_last.op = "score"
    /\ LastFacts.words > 1
    /\ FLt(LastFacts.ratio, sr_last.min_ratio)

\* C11: for every multi-word query whose word-overlap ratio with the title is
\* below the minimum word-match ratio of the analysis, the phrase signal used
\* in the score is at most 20% of its unpenalized value.
C11_LowOverlapIsPenalized ==
    LowOverlap => FLe(sr_last.phrase_score, FMul(<<2, 10>>, LastFacts.unpenalized))

\* two of three words found, contiguous, under a phrase-like analysis: the
\* penalty applies to a non-zero value that includes the bigram bonus
C11_Witness ==
    /\ LowOverlap
    /\ sr_last.min_ratio = <<7, 10>>
    /\ FLt(<<7, 15>>, LastFacts.unpenalized)
    /\ sr_last.phrase_score = FMul(<<2, 10>>, LastFacts.unpenalized)

(***************************************************************************)
(* Properties of the ranker                                                *)
(***************************************************************************)
\* C12: for every input list, maxResults and minScore, the list returned by
\* _rank_and_deduplicate holds no two entries with the same normalized title
\* and no entry whose score is below minScore.
C12_NoDuplicateTitleNoLowScore ==
    rk_last.op = "rank" =>
        /\ \A i, j \in 1..Len(rk_last.returned) :
               RankedNormalized[rk_last.returned[i].work.title]
                   = RankedNormalized[rk_last.returned[j].work.title] => i = j
        /\ \A i \in 1..Len(rk_last.returned) :
               FLe(rk_last.min_score, rk_last.returned[i].score)

\* an input with two titles of one normalized form and an entry below
\* minScore, of which one entry is returned
C12_Witness ==
    /\ rk_last.op = "rank"
    /\ \E i, j \in 1..Len(rk_last.results) :
           /\ i # j
           /\ rk_last.results[i].work.title # rk_last.results[j].work.title
           /\ RankedNormalized[rk_last.results[i].work.title]
                  = RankedNormalized[rk_last.results[j].work.title]
           /\ FLe(rk_last.min_score, rk_last.results[i].score)
           /\ FLe(rk_last.min_score, rk_last.results[j].score)
    /\ \E i \in 1..Len(rk_last.results) :
           FLt(rk_last.results[i].score, rk_last.min_score)
    /\ Len(rk_last.returned) = 1
    /\ rk_last.max_results > 1

Processing(t) ==
    /\ sd_loops[t].pc \notin {"unborn", "done"}
    /\ ~sd_loops[t].must_cancel

\* C14: whatever the order of the start() and stop() calls, at most one
\* _run_loop task can process records at any time, and it is the task
\* self._task of a running scheduler: start() while running creates no
\* loop, and the loop a waiting stop() has cancelled processes nothing next
\* to the loop of a later start().
C14_AtMostOneLoopProcesses ==
    /\ Cardinality({t \in Loops : Processing(t)}) <= 1
    /\ \A t \in Loops : Processing(t) => sd_running /\ sd_task = t

\* start() came while stop() was waiting for the first loop, cancelled in
\* the middle of a pass; the second loop is in a pass of its own, and a
\* further start() was refused
C14_Witness ==
    /\ sd_stops[1].pc = "waiting"
    /\ sd_stops[1].awaits = 1
    /\ sd_loops[1].pc = "verify"
    /\ sd_loops[2].pc = "verify"
    /\ sd_warned

\* stop() has been called on loop t
StopCalledOn(t) ==
    \E s \in StopCalls : sd_stops[s].pc # "unborn" /\ sd_stops[s].awaits = t

\* loop t calls verify_and_update, or a call of it comes back, in this step
VerifiesInStep(t) ==
    \/ sd_loops'[t].pc = "verify" /\ sd_loops'[t] # sd_loops[t]
    \/ sd_loops[t].pc = "verify" /\ sd_loops'[t].pc \in {"rate_sleep", "retry_sleep"}

\* C15: once stop() has been called on a loop, in a pass or in a sleep, the
\* loop verifies no further record and ends at the await it is suspended
\* at; the stop() that waits for it returns; when it has returned the loop
\* has ended, and with no start() since, no loop is left at all.
C15_StopEndsTheLoop ==
    /\ [][\A t \in Loops : StopCalledOn(t) => ~VerifiesInStep(t)]_vars
    /\ \A t \in Loops :
           (sd_loops[t].must_cancel) ~> (sd_loops[t].pc = "done")
    /\ \A s \in StopCalls :
           (sd_stops[s].pc = "waiting") ~> (sd_stops[s].pc = "returned")
    /\ [](\A s \in StopCalls :
              sd_stops[s].pc = "returned" /\ sd_stops[s].awaits # NoTask
                  => sd_loops[sd_stops[s].awaits].pc = "done")
    /\ []((~sd_running /\ \A s \in StopCalls : sd_stops[s].pc # "waiting")
              => \A t \in Loops : sd_loops[t].pc \in {"unborn", "done"})

\* a stop() that waited has returned: its loop was cancelled in its first
\* pass after one record of three, and the other two were never verified
C15_Witness ==
    /\ sd_stops[1].pc = "returned"
    /\ sd_stops[1].awaits = 1
    /\ sd_loops[1].pc = "done"
    /\ sd_passes = 1
    /\ sd_entries_updated = 1
    /\ sd_stale = {2, 3}
    /\ sd_task = 1

(***************************************************************************)
(* Properties of a search request and its merge                            *)
(***************************************************************************)
\* a candidate with a missing or an empty title
Malformed(work) == work.title = NoneText \/ work.title = EmptyTitle

\* the rows that carry the key of a candidate
RowsFor(rows, work) ==
    {i \in DOMAIN rows :
        /\ rows[i].title_normalized = MergedNormalized[work.title]
        /\ rows[i].content_type = MergedRow(work).content_type}

\* C16: when a merge whose batch holds exactly one malformed candidate
\* (title missing or empty) has ended, and the database did not refuse the
\* commit, the batch is committed: every well-formed candidate of it has
\* its record, and the store holds no record without a title.
C16_MalformedCandidateIsSkipped ==
    \A c \in Calls :
        LET call == ig_calls[c]
        IN  (/\ call.pc = "done"
             /\ ~call.commit_failed
             /\ Cardinality({i \in DOMAIN call.batch : Malformed(call.batch[i])}) = 1)
            => /\ call.outcome = "results"
               /\ \A i \in DOMAIN call.batch :
                      ~Malformed(call.batch[i]) => RowsFor(ig_rows, call.batch[i]) # {}
               /\ \A i \in DOMAIN ig_rows :
                      ig_rows[i].title # NoneText /\ ig_rows[i].title # EmptyTitle

\* C17: a request whose merge failed answers with an error only when the
\* local search had found nothing (with local results it answers with
\* them), and the failed merge leaves the store as it found it.
C17_ErrorOnlyWithoutLocalResults ==
    \A c \in Calls :
        (ig_calls[c].pc = "done" /\ ig_calls[c].outcome = "error")
            => /\ ig_calls[c].db_results = 0
               /\ ig_calls[c].after = ig_calls[c].before

\* the rows created under a looked-up key (normalized title, content type)
RowsUnder(rows, key) ==
    {i \in DOMAIN rows :
        /\ rows[i].title_normalized = key[1]
        /\ rows[i].content_type = IF key[2] # NoneStr THEN key[2] ELSE "unknown"}

\* C19: when two requests in flight at the same time have both looked up
\* one key, both found it absent and both committed, the store holds
\* exactly one record for that key.
C19_OneRecordPerAbsentKey ==
    \A c1, c2 \in Calls :
        (/\ c1 # c2
         /\ ig_calls[c1].pc = "done" /\ ig_calls[c1].outcome = "results"
         /\ ig_calls[c2].pc = "done" /\ ig_calls[c2].outcome = "results")
        => \A key \in ig_calls[c1].absent \cap ig_calls[c2].absent :
               Cardinality(RowsUnder(ig_rows, key)) = 1

(***************************************************************************)
(* Properties of the entry points                                          *)
(***************************************************************************)
\* C18: a request whose query is empty or longer than 500 characters is
\* rejected before any work, through each of the three entry points: no
\* spell correction, no read of the store, no adapter call.
C18_InvalidQueryDoesNoWork ==
    (rq_last.op = "request" /\ (rq_last.length = 0 \/ rq_last.length > MaxQueryLength))
        => /\ rq_last.rejected
           /\ ~rq_last.spell_corrected
           /\ ~rq_last.store_read
           /\ ~rq_last.adapters_called

(***************************************************************************)
(* Properties of the feedback route                                        *)
(***************************************************************************)
\* C20: the learned corrections change only on a confirmed selection: a
\* feedback event that reports the selected result as not correct leaves
\* the learned-correction map as it was.
C20_NoLearningFromRejectedResult ==
    (fb_last.op = "feedback" /\ ~fb_last.was_correct)
        => learned_corrections = fb_last.before

(***************************************************************************)
(* Properties of normalize_title                                           *)
(***************************************************************************)
\* C21: normalize_title is idempotent: whatever text it is given, normalizing
\* the text it returned gives that text again.
C21_NormalizeTitleIsIdempotent ==
    nt_last.op = "normalize"
        => normalize_title(nt_last.returned) = nt_last.returned

\* a text with an accented letter, whitespace and a character the pattern
\* removes, normalized to a text that is not empty
C21_Witness ==
    /\ nt_last.op = "normalize"
    /\ \E i, j, k \in 1..Len(nt_last.title) :
           /\ nt_last.title[i] = EAcute
           /\ IsSpace(nt_last.title[j])
           /\ nt_last.title[k] = "!"
    /\ nt_last.returned = <<"e">>

C23_CorrectionIsDeterministic ==
    co_last.op = "correct" => Cardinality(correct(co_last.text)) = 1

(***************************************************************************)
(* Properties of the confidence boost                                      *)
(***************************************************************************)
\* C24: the confidence boost added to the relevance score of a record is the
\* record's dataConfidence times 0.05, for every dataConfidence from 0 to 1,
\* so that a record of dataConfidence 0 gets no boost.
C24_BoostIsConfidenceTimesFiveHundredths ==
    (sr_last.op = "score" /\ sr_last.data_confidence # NoneInt) =>
        LET expected == FMul(Frac(sr_last.data_confidence, 100), <<5, 100>>)
        IN  /\ FLe(sr_last.confidence_boost, expected)
            /\ FLe(expected, sr_last.confidence_boost)

\* the input of the last correct call was not matched as a whole: it is
\* handled by the per-word step
ReachedWordLevel ==
    /\ co_last.op = "correct"
    /\ co_last.text # <<>>
    /\ LowerStrip(co_last.text) \notin DOMAIN known_corrections
    /\ LowerStrip(co_last.text) \notin DOMAIN learned_corrections
    /\ LowerStrip(co_last.text) \notin known_titles

\* C25: in the per-word step of correct, every word shorter than 3 characters
\* and every word of the frequency vocabulary is left as it is, whatever the
\* corrector has learned.
C25_ShortAndKnownWordsLeftAlone ==
    ReachedWordLevel =>
        LET words == Split(LowerStrip(co_last.text))
        IN  \A done \in CorrectedWords(words, Len(words)) :
                \A k \in 1..Len(words) :
                    (Len(words[k]) < 3 \/ words[k] \in DOMAIN word_freq)
                        => done[1][k] = words[k]

\* C27: a corrected text is a fixed point of the corrector: when correct has
\* returned a text, correct of that text returns it again and reports no
\* correction, in every state of the corrector; the value of a curated
\* correction is not corrected again.
C27_CorrectedTextIsAFixedPoint ==
    co_last.op = "correct"
        => correct(co_last.result[1]) = {<<co_last.result[1], FALSE>>}

(***************************************************************************)
(* Properties of the type table of search_all                              *)
(***************************************************************************)
\* every content type the table names, as a key or in a group
TypeNames == (DOMAIN type_groups) \cup UNION {type_groups[ct] : ct \in DOMAIN type_groups}

\* C26: the type table search_all filters with is an equivalence: a request
\* for a type admits candidates of that type, and when a request for type A
\* admits candidates of type B, a request for type B admits candidates of
\* type A.
C26_TypeTableIsAnEquivalence ==
    (sc_pc = "returned" /\ TruthyStr(sc_type)) =>
        /\ PassesTypeFilter(sc_type, sc_type)
        /\ \A b \in TypeNames :
               PassesTypeFilter(b, sc_type) => PassesTypeFilter(sc_type, b)

(***************************************************************************)
(* Properties of the collector's status                                    *)
(***************************************************************************)
\* C28: get_status reports is_running = true whenever at least one
\* collect_for_query call is in flight, however the concurrent calls on the
\* shared collector interleave: the end of one call does not clear the flag
\* while another call is still running.
C28_RunningWhileACallIsInFlight ==
    (cl_status.op = "status" /\ cl_status.in_flight > 0) => cl_status.is_running

\* C29: a feedback event {searchId, selectedResultId} attaches the selection
\* to the log entry whose id is searchId and leaves every other log entry as
\* it was, also when several log entries have the same query text.
C29_SelectionGoesToTheNamedLog ==
    (fb_last.op = "feedback" /\ fb_last.log /\ fb_last.work) =>
        /\ fb_logs[fb_last.search_id].user_selected_id = fb_last.selected_result_id
        /\ \A i \in 1..Len(fb_last.logs_before) :
               i # fb_last.search_id => fb_logs[i] = fb_last.logs_before[i]

(***************************************************************************)
(* Properties of the refresh passes                                        *)
(***************************************************************************)
\* C30: with passes that keep running, every record whose lastVerifiedAt is
\* null or stale is eventually selected and handed to verify_and_update by
\* some pass: the records that were processed without a good match do not
\* keep the batch for themselves.
C30_EveryStaleRecordIsEventuallyVerified ==
    \A r \in RefreshRecords :
        (r \in rf_stale) ~> (rf_pc = "verify" /\ rf_entries[rf_entry] = r)

====
